---- MODULE Spec2Model ----
(***************************************************************************)
(* A model of the linkbox backend (backend/linkbox/linkbox.go).            *)
(*                                                                         *)
(* These state machines share the module:                                  *)
(*   SpecUpload  the multipart part transfer, Object.UploadParts           *)
(*   SpecOpen    the range-parallel download, Object.Open / DownloadRange  *)
(*   SpecFs      the path operations against the remote's ID namespace     *)
(*   SpecPut     Put / Update against the same remote                      *)
(*   SpecFetch   one control-plane request under the pacer                 *)
(*   SpecSearch  the name-filtered lookup of the directory-cache backend   *)
(* Every specification leaves the variables of the others at their         *)
(* initial, idle value.                                                    *)
(***************************************************************************)
EXTENDS Integers, Sequences, FiniteSets, TLC

VARIABLES
    \* ---- UploadParts ----
    upCfg,        \* inSize, partSize, o.fs.opt.MultipartTx* of this upload
    pc,           \* position of the scheduling goroutine in UploadParts
    i, j,         \* loop variables of the two scheduling loops
    inPos,        \* number of bytes consumed from *in
    tickets,      \* len(tickets): tickets held
    wgCount,      \* counter of the sync.WaitGroup
    hasFailures,  \* the shared flag
    parts,        \* parts []obs.Part, indexed 1..partCount (Go index + 1)
    workers,      \* the part goroutines, by part number
    obsParts,     \* object store: part bodies received, by part number
    obsObject,    \* object store: the assembled object
    outOfOrder,   \* a worker has ended before one with a smaller part number
    \* ---- Open ----
    rx,           \* the Open call: its configuration, locals and position
    rxParts,      \* parts []io.ReadCloser and their goroutines, indexed 1..concurrency
    \* ---- Fs ----
    ents,         \* remote: the live entities (files and folders)
    nextId,       \* remote: next numeric ID to hand out
    lastOp,       \* the last backend call: arguments, pre-state, log, result
    \* ---- single calls ----
    fetch,        \* a control-plane request under the pacer: attempts and result
    look,         \* a name lookup under a parent: the remote, the name, the result
    ctxDone       \* the context of the upload is cancelled

upVars == <<upCfg, pc, i, j, inPos, tickets, wgCount, hasFailures, parts,
            workers, obsParts, obsObject, outOfOrder>>
rxVars == <<rx, rxParts>>
fsVars == <<ents, nextId, lastOp>>
callVars == <<fetch, look, ctxDone>>
vars == <<upVars, rxVars, fsVars, callVars>>

Min(a, b) == IF a < b THEN a ELSE b

Range(s) == {s[k] : k \in 1..Len(s)}

\* the values the idle state machines rest at
IdleCfg == [inSize |-> 0, partSize |-> 1, concurrency |-> 0,
            maxBufferSize |-> 0, integrity |-> FALSE]
IdleRx == [pc |-> "idle"]
IdleOp == [op |-> "none"]
IdleCall == [pc |-> "idle"]

(***************************************************************************)
(* UploadParts                                                             *)
(***************************************************************************)

\* bounds of the upload model
MaxInSize == 3
MaxPartSize == 2
MaxTxConcurrency == 2
MaxBufferSize == 4
\* attempts one pacer.Call makes before it gives up (fs.Pacer retries)
MaxTries == 2

maxPerUploadParts == 10000

\* the input stream: inSize bytes, byte k carrying the value k
Stream(inSize) == [k \in 1..inSize |-> k]

\* the configured concurrency, the memory cap not applied
\* the floor alone, without the reduction to the memory cap
FlooredConcurrency(cfg) == IF cfg.concurrency < 1 THEN 1 ELSE cfg.concurrency

ConfiguredConcurrency(cfg) == cfg.concurrency

\* linkbox.go 1234-1241
CalibratedConcurrency(cfg) ==
    LET estimatedBufferSize == cfg.partSize * cfg.concurrency
        c == IF estimatedBufferSize > cfg.maxBufferSize
             THEN cfg.maxBufferSize \div cfg.partSize
             ELSE cfg.concurrency
    IN  IF c < 1 THEN 1 ELSE c

PartCountFloor(inSize, partSize) == inSize \div partSize

\* linkbox.go 1243-1246
PartCount(inSize, partSize) ==
    IF inSize % partSize # 0 THEN (inSize \div partSize) + 1
    ELSE inSize \div partSize

\* io.ReadAll(io.LimitReader(*in, partSize)) at stream position pos
PartContent(cfg, pos) ==
    SubSeq(Stream(cfg.inSize), pos + 1, Min(pos + cfg.partSize, cfg.inSize))

NoPart == [ETag |-> <<>>, PartNumber |-> 0]
FailedPart == [ETag |-> <<>>, PartNumber |-> -1]

\* the scheduler reads hasFailures without synchronisation: once a worker has
\* set it, a read returns the old or the new value; the scheduler's own write
\* (the part-read error path) is always seen
SchedulerReads ==
    IF hasFailures /\ \E n \in DOMAIN parts :
                          parts[n] = FailedPart /\ workers[n].st = "none"
    THEN {TRUE}
    ELSE IF hasFailures THEN {TRUE, FALSE} ELSE {FALSE}

UploadInit ==
    /\ upCfg \in [inSize : 1..MaxInSize, partSize : 1..MaxPartSize,
                  concurrency : 1..MaxTxConcurrency,
                  maxBufferSize : 1..MaxBufferSize, integrity : BOOLEAN]
    /\ pc = "start" /\ i = 0 /\ j = 0 /\ inPos = 0 /\ tickets = 0
    /\ wgCount = 0 /\ hasFailures = FALSE /\ parts = <<>>
    /\ workers = <<>> /\ obsParts = <<>> /\ obsObject = <<>>
    /\ outOfOrder = FALSE
    /\ rx = IdleRx /\ rxParts = <<>>
    /\ ents = {} /\ nextId = 1 /\ lastOp = IdleOp
    /\ fetch = IdleCall /\ look = IdleCall /\ ctxDone = FALSE

upRest == <<rxVars, fsVars, callVars>>

\* linkbox.go 1315-1324: in integrity mode the worker first reads the body to
\* its end to hash it; this is local to the worker and precedes its first attempt
HashedOffset(cfg, body) == IF cfg.integrity THEN Len(body) ELSE 0

\* a check that lets any number of parts pass
TooManyPartsNever(partCount) == FALSE

\* linkbox.go 1248-1250
TooManyParts(partCount) == partCount > maxPerUploadParts

\* linkbox.go 1243-1250: the part count and its check
UpStart ==
    /\ pc = "start"
    /\ pc' = IF TooManyParts(PartCount(upCfg.inSize, upCfg.partSize))
             THEN "error" ELSE "initiate"
    /\ UNCHANGED <<upCfg, i, j, inPos, tickets, wgCount, hasFailures, parts,
                   workers, obsParts, obsObject, outOfOrder, upRest>>

\* linkbox.go 1252-1272: obs.New, InitiateMultipartUpload, make(parts)
UpInitiate ==
    /\ pc = "initiate"
    /\ LET partCount == PartCount(upCfg.inSize, upCfg.partSize) IN
            \E ok \in BOOLEAN :
              IF ok
              THEN /\ pc' = "outer"
                   /\ parts' = [n \in 1..partCount |-> NoPart]
                   /\ workers' = [n \in 1..partCount |->
                                    [st |-> "none", body |-> <<>>, off |-> 0,
                                     tries |-> 0, err |-> FALSE]]
                   /\ obsParts' = [n \in 1..partCount |-> <<>>]
              ELSE pc' = "error" /\ UNCHANGED <<parts, workers, obsParts>>
    /\ UNCHANGED <<upCfg, i, j, inPos, tickets, wgCount, hasFailures,
                   obsObject, outOfOrder, upRest>>

\* linkbox.go 1287-1291: the outer loop's condition and the batch size
UpOuter ==
    /\ pc = "outer"
    /\ \E seen \in SchedulerReads :
         IF i < Len(parts) /\ ~seen
         THEN pc' = "inner" /\ j' = i
         ELSE pc' = "wait" /\ j' = j
    /\ UNCHANGED <<upCfg, i, inPos, tickets, wgCount, hasFailures, parts,
                   workers, obsParts, obsObject, outOfOrder, upRest>>

BatchSize ==
    LET cc == CalibratedConcurrency(upCfg)
    IN  IF i + cc > Len(parts) THEN Len(parts) - i ELSE cc

\* linkbox.go 1292: the inner loop's condition; on exit i += calibratedConcurrency
UpInner ==
    /\ pc = "inner"
    /\ \E seen \in SchedulerReads :
         IF j < i + BatchSize /\ ~seen
         THEN pc' = "ticket" /\ i' = i
         ELSE pc' = "outer" /\ i' = i + CalibratedConcurrency(upCfg)
    /\ UNCHANGED <<upCfg, j, inPos, tickets, wgCount, hasFailures, parts,
                   workers, obsParts, obsObject, outOfOrder, upRest>>

\* linkbox.go 1275-1278, 1293-1296, 1304-1306, 1342: GetTicket blocks while
\* the channel is full; then the part is read and its worker started
UpGetTicketReadPart ==
    /\ pc = "ticket"
    /\ tickets < CalibratedConcurrency(upCfg)
    /\ tickets' = tickets + 1
    /\ wgCount' = wgCount + 1
    /\ LET partNumber == j + 1
           partContent == PartContent(upCfg, inPos)
       IN  /\ inPos' = inPos + Len(partContent)
           /\ workers' = [workers EXCEPT ![partNumber] =
                            [st |-> "upload", body |-> partContent,
                             off |-> HashedOffset(upCfg, partContent),
                             tries |-> 0, err |-> FALSE]]
    /\ j' = j + 1
    /\ pc' = "inner"
    /\ UNCHANGED <<upCfg, i, hasFailures, parts, obsParts, obsObject,
                   outOfOrder, upRest>>

\* linkbox.go 1293, 1297-1303: GetTicket, then reading the part fails: the
\* ticket is released, the part marked, and the inner loop left by break
UpGetTicketReadFails ==
    /\ pc = "ticket"
    /\ tickets < CalibratedConcurrency(upCfg)
    /\ hasFailures' = TRUE
    /\ parts' = [parts EXCEPT ![j + 1] = FailedPart]
    /\ i' = i + CalibratedConcurrency(upCfg)
    /\ pc' = "outer"
    /\ UNCHANGED <<upCfg, j, inPos, tickets, wgCount, workers, obsParts,
                   obsObject, outOfOrder, upRest>>

\* body.Seek(0, io.SeekStart)
SeekStart(off) == 0

\* linkbox.go 1328-1333: one attempt of the pacer call; the object store keeps
\* what the request body held from its read offset on
WorkerUploadPart(n) ==
    /\ n \in DOMAIN workers
    /\ workers[n].st = "upload"
    /\ LET w == workers[n]
           off == SeekStart(w.off)
           sent == SubSeq(w.body, off + 1, Len(w.body))
       IN  \E ok \in BOOLEAN :
             IF ok
             THEN /\ obsParts' = [obsParts EXCEPT ![n] = sent]
                  /\ workers' = [workers EXCEPT ![n].st = "result",
                                   ![n].off = Len(w.body),
                                   ![n].tries = w.tries + 1,
                                   ![n].err = FALSE]
             ELSE /\ workers' = [workers EXCEPT
                          ![n].st = IF w.tries + 1 < MaxTries
                                    THEN "upload" ELSE "result",
                          ![n].off = Len(w.body),
                          ![n].tries = w.tries + 1,
                          ![n].err = TRUE]
                  /\ UNCHANGED obsParts
    /\ UNCHANGED <<upCfg, pc, i, j, inPos, tickets, wgCount, hasFailures,
                   parts, obsObject, outOfOrder, upRest>>

\* the worker recording its part in the first free entry of the list
WorkerResultInCompletionOrder(n) ==
    /\ n \in DOMAIN workers
    /\ workers[n].st = "result"
    /\ LET free == CHOOSE k \in DOMAIN parts :
                       parts[k] = NoPart /\ \A m \in 1..(k - 1) : parts[m] # NoPart
       IN  IF ~workers[n].err
           THEN /\ parts' = [parts EXCEPT ![free] =
                               [ETag |-> obsParts[n], PartNumber |-> n]]
                /\ UNCHANGED hasFailures
           ELSE /\ parts' = [parts EXCEPT ![free] = FailedPart]
                /\ hasFailures' = TRUE
    /\ workers' = [workers EXCEPT ![n].st = "release"]
    /\ UNCHANGED <<upCfg, pc, i, j, inPos, tickets, wgCount, obsParts,
                   obsObject, outOfOrder, upRest>>

\* linkbox.go 1335-1341: the worker records its part
WorkerResult(n) ==
    /\ n \in DOMAIN workers
    /\ workers[n].st = "result"
    /\ IF ~workers[n].err
       THEN /\ parts' = [parts EXCEPT ![n] =
                           [ETag |-> obsParts[n], PartNumber |-> n]]
            /\ UNCHANGED hasFailures
       ELSE /\ parts' = [parts EXCEPT ![n] = FailedPart]
            /\ hasFailures' = TRUE
    /\ workers' = [workers EXCEPT ![n].st = "release"]
    /\ UNCHANGED <<upCfg, pc, i, j, inPos, tickets, wgCount, obsParts,
                   obsObject, outOfOrder, upRest>>

\* a worker that ends without releasing its ticket
WorkerExitKeepingTicket(n) ==
    /\ n \in DOMAIN workers
    /\ workers[n].st = "release"
    /\ workers' = [workers EXCEPT ![n].st = "done"]
    /\ UNCHANGED <<upCfg, pc, i, j, inPos, tickets, wgCount, hasFailures,
                   parts, obsParts, obsObject, outOfOrder, upRest>>

\* linkbox.go 1279-1282, 1307: the deferred ReleaseTicket
WorkerReleaseTicket(n) ==
    /\ n \in DOMAIN workers
    /\ workers[n].st = "release"
    /\ tickets' = tickets - 1
    /\ wgCount' = wgCount - 1
    /\ workers' = [workers EXCEPT ![n].st = "done"]
    /\ outOfOrder' = (outOfOrder \/ \E m \in 1..(n - 1) :
                         workers[m].st \in {"upload", "result", "release"})
    /\ UNCHANGED <<upCfg, pc, i, j, inPos, hasFailures, parts, obsParts,
                   obsObject, upRest>>

\* the failure check of line 1347 without the wg.Wait() of line 1345
UpFailureCheckUnwaited ==
    /\ pc = "wait"
    /\ pc' = IF hasFailures THEN "error" ELSE "complete"
    /\ UNCHANGED <<upCfg, i, j, inPos, tickets, wgCount, hasFailures, parts,
                   workers, obsParts, obsObject, outOfOrder, upRest>>

\* linkbox.go 1345-1349: wg.Wait(), then the failure check
UpWait ==
    /\ pc = "wait"
    /\ wgCount = 0
    /\ pc' = IF hasFailures THEN "error" ELSE "complete"
    /\ UNCHANGED <<upCfg, i, j, inPos, tickets, wgCount, hasFailures, parts,
                   workers, obsParts, obsObject, outOfOrder, upRest>>

RECURSIVE Assemble(_, _)
\* the object store's CompleteMultipartUpload: the listed parts' bodies, in
\* the order of the list
Assemble(list, store) ==
    IF list = <<>> THEN <<>>
    ELSE store[Head(list).PartNumber] \o Assemble(Tail(list), store)

\* the object store accepts a list whose part numbers ascend and whose
\* entries name a received part by its ETag
CompleteAccepts(list, store) ==
    /\ \A k \in 1..Len(list) :
         /\ list[k].PartNumber \in DOMAIN store
         /\ list[k].ETag = store[list[k].PartNumber]
    /\ \A k \in 1..(Len(list) - 1) : list[k].PartNumber < list[k + 1].PartNumber

\* linkbox.go 1351-1361
UpComplete ==
    /\ pc = "complete"
    /\ \E ok \in BOOLEAN :
         IF ok /\ CompleteAccepts(parts, obsParts)
         THEN pc' = "done" /\ obsObject' = Assemble(parts, obsParts)
         ELSE pc' = "error" /\ UNCHANGED obsObject
    /\ UNCHANGED <<upCfg, i, j, inPos, tickets, wgCount, hasFailures, parts,
                   workers, obsParts, outOfOrder, upRest>>

\* the context that _MultipartUpload was called with is cancelled while
\* UploadParts runs; UploadParts is not given the context (linkbox.go 1232,
\* 1402) and nothing in it reads it
UpCancel ==
    /\ pc \in {"outer", "inner", "ticket", "wait"}
    /\ ~ctxDone
    /\ ctxDone' = TRUE
    /\ UNCHANGED <<upVars, rxVars, fsVars, fetch, look>>

UploadNext ==
    \/ UpStart
    \/ UpInitiate
    \/ UpCancel
    \/ UpOuter
    \/ UpInner
    \/ UpGetTicketReadPart
    \/ UpGetTicketReadFails
    \/ \E n \in 1..(MaxInSize + 1) : WorkerUploadPart(n)
    \/ \E n \in 1..(MaxInSize + 1) : WorkerResult(n)
    \/ \E n \in 1..(MaxInSize + 1) : WorkerReleaseTicket(n)
    \/ UpWait
    \/ UpComplete

SpecUpload == UploadInit /\ [][UploadNext]_vars

\* inputs of more parts than one upload may have, next to the small ones
LargeInSizes(partSize) == {maxPerUploadParts * partSize + d : d \in 1..partSize}

LargeUploadInit ==
    /\ upCfg \in {cfg \in [inSize : (1..MaxInSize) \cup
                                     UNION {LargeInSizes(p) : p \in 1..MaxPartSize},
                            partSize : 1..MaxPartSize,
                            concurrency : 1..MaxTxConcurrency,
                            maxBufferSize : 1..MaxBufferSize,
                            integrity : BOOLEAN] :
                    cfg.inSize <= MaxInSize \/ cfg.inSize \in LargeInSizes(cfg.partSize)}
    /\ pc = "start" /\ i = 0 /\ j = 0 /\ inPos = 0 /\ tickets = 0
    /\ wgCount = 0 /\ hasFailures = FALSE /\ parts = <<>>
    /\ workers = <<>> /\ obsParts = <<>> /\ obsObject = <<>>
    /\ outOfOrder = FALSE
    /\ rx = IdleRx /\ rxParts = <<>>
    /\ ents = {} /\ nextId = 1 /\ lastOp = IdleOp
    /\ fetch = IdleCall /\ look = IdleCall /\ ctxDone = FALSE

SpecUploadLarge == LargeUploadInit /\ [][UploadNext]_vars

\* the steps of UploadParts and of its workers; the cancellation is the
\* caller's
UploadProgress ==
    \/ UpStart
    \/ UpInitiate
    \/ UpOuter
    \/ UpInner
    \/ UpGetTicketReadPart
    \/ UpGetTicketReadFails
    \/ \E n \in 1..(MaxInSize + 1) : WorkerUploadPart(n)
    \/ \E n \in 1..(MaxInSize + 1) : WorkerResult(n)
    \/ \E n \in 1..(MaxInSize + 1) : WorkerReleaseTicket(n)
    \/ UpWait
    \/ UpComplete

\* every goroutine that can take a step takes one in the end, and every
\* request to the object store returns
SpecUploadLive == SpecUpload /\ WF_vars(UploadProgress)

\* C1: when the part transfer of an upload of declared size S succeeds, the
\* object assembled by CompleteMultipartUpload has exactly S bytes and equals
\* the input stream byte for byte, whatever the part size, the concurrency and
\* the interleaving of the part workers.
C1_AssembledEqualsInput ==
    pc = "done" =>
        /\ Len(obsObject) = upCfg.inSize
        /\ obsObject = Stream(upCfg.inSize)

\* a successful upload of several parts, the last one short, whose workers
\* ended out of part-number order after a retried attempt
C1_Witness ==
    /\ pc = "done"
    /\ Len(parts) >= 2
    /\ upCfg.inSize % upCfg.partSize # 0
    /\ outOfOrder
    /\ \E n \in DOMAIN workers : workers[n].tries > 1

(***************************************************************************)
(* Open / DownloadRange                                                    *)
(***************************************************************************)

minDownloadPartSize == 1048576

\* bounds of the download model: o.fs.opt.MultipartRxConcurrency, the start
\* of the requested range, and its length q * minDownloadPartSize + r
MaxRxConcurrency == 3
MaxStart == 1
MaxQuot == 5
MaxRem == 2

\* what an io.ReadCloser returned by DownloadRange delivers
Nil == [kind |-> "nil"]
Bytes(a, b) == [kind |-> "bytes", from |-> a, to |-> b]
ErrorPage(code) == [kind |-> "errpage", code |-> code]

RxLengths == {q * minDownloadPartSize + r : q \in 0..MaxQuot, r \in 0..MaxRem} \ {0}

\* an Open with one range option, as fs.FixRangeOption leaves it: a range
\* inside the object
OpenInit ==
    /\ \E n \in 0..MaxRxConcurrency, s \in 0..MaxStart, len \in RxLengths :
         rx = [pc |-> "open", MultipartRxConcurrency |-> n, size |-> s + len,
               optStart |-> s, optEnd |-> s + len - 1, path |-> "none",
               err |-> FALSE, readers |-> <<>>]
    /\ rxParts = <<>>
    /\ upCfg = IdleCfg /\ pc = "idle" /\ i = 0 /\ j = 0 /\ inPos = 0
    /\ tickets = 0 /\ wgCount = 0 /\ hasFailures = FALSE /\ parts = <<>>
    /\ workers = <<>> /\ obsParts = <<>> /\ obsObject = <<>>
    /\ outOfOrder = FALSE
    /\ ents = {} /\ nextId = 1 /\ lastOp = IdleOp
    /\ fetch = IdleCall /\ look = IdleCall /\ ctxDone = FALSE

\* linkbox.go 1158-1168: the range the loop over the options leaves in start, end
RangeStart(r) == IF r.optStart >= 0 /\ r.optStart < r.optEnd THEN r.optStart ELSE 0
RangeEnd(r) == IF r.optStart >= 0 /\ r.optStart < r.optEnd THEN r.optEnd ELSE 0

\* linkbox.go 1175-1181
RxLength(r) == RangeEnd(r) - RangeStart(r) + 1
RxPartSize(r) == RxLength(r) \div r.MultipartRxConcurrency
RxRemainder(r) == RxLength(r) % r.MultipartRxConcurrency
RxConcurrency(r) ==
    IF RxRemainder(r) # 0 THEN r.MultipartRxConcurrency + 1
    ELSE r.MultipartRxConcurrency

\* linkbox.go 1153-1191: which way Open goes
OpenPath(r) ==
    IF r.MultipartRxConcurrency = 0 THEN "plain"
    ELSE IF RxConcurrency(r) = 1 THEN "single"
    ELSE IF RxPartSize(r) < minDownloadPartSize THEN "plain"
    ELSE "parallel"

\* linkbox.go 1198: start_ of part k (k = 0 .. concurrency-1)
PartStart(r, k) == RangeStart(r) + k * RxPartSize(r)

PartEndClamped(r, k) ==
    IF k = r.MultipartRxConcurrency - 1 THEN RangeEnd(r)
    ELSE RangeStart(r) + (k + 1) * RxPartSize(r) - 1

\* linkbox.go 1199-1203: end_ of part k
PartEnd(r, k) ==
    IF k = RxConcurrency(r) - 1 /\ RxRemainder(r) > 0
    THEN PartStart(r, k) + RxRemainder(r) - 1
    ELSE RangeStart(r) + (k + 1) * RxPartSize(r) - 1

NewRxPart(a, b) ==
    [st |-> "running", start |-> a, end |-> b, tries |-> 0, reader |-> Nil,
     closed |-> FALSE]

rxRest == <<upVars, fsVars, callVars>>

\* linkbox.go 1153-1209: Open up to the start of the DownloadRange calls
OpenStart ==
    /\ rx.pc = "open"
    /\ LET path == OpenPath(rx) IN
       /\ rx' = [rx EXCEPT !.pc = "download", !.path = path]
       /\ rxParts' =
            CASE path = "plain" -> <<NewRxPart(0, 0)>>
              [] path = "single" -> <<NewRxPart(RangeStart(rx), RangeEnd(rx))>>
              [] OTHER -> [k \in 1..RxConcurrency(rx) |->
                             NewRxPart(PartStart(rx, k - 1), PartEnd(rx, k - 1))]
    /\ UNCHANGED rxRest

\* what the signed URL answers to a GET for bytes a..b of the object
RangeResponse(r, a, b) == Bytes(a, Min(b, r.size - 1))

\* linkbox.go 1107: DownloadRange takes start == end for "no range of its own"
IsPlainRequest(a, b) == a = b

Outcomes == {"ok", "neterr", "http503", "http404"}

\* linkbox.go 1083-1101: whether shouldRetry asks for another attempt
RxShouldRetry(outcome) == outcome \in {"neterr", "http503"}

\* linkbox.go 1103-1133: one attempt of DownloadRange for part k, and what
\* DownloadRange returns once no further attempt is made
DownloadAttempt(k) ==
    /\ rx.pc = "download"
    /\ k \in DOMAIN rxParts
    /\ rxParts[k].st = "running"
    /\ \E outcome \in Outcomes :
         LET p == rxParts[k]
             plain == IsPlainRequest(p.start, p.end)
             again == RxShouldRetry(outcome) /\ p.tries + 1 < MaxTries
             body == IF plain
                     THEN \* rest client, the caller's options as headers; an
                          \* HTTP error status is an error of the call
                          IF outcome = "ok"
                          THEN RangeResponse(rx, rx.optStart, rx.optEnd)
                          ELSE Nil
                     ELSE \* http.Client.Do with a Range header: only a
                          \* transport error sets err
                          CASE outcome = "ok" -> RangeResponse(rx, p.start, p.end)
                            [] outcome = "neterr" -> Nil
                            [] outcome = "http503" -> ErrorPage(503)
                            [] OTHER -> ErrorPage(404)
         IN  rxParts' = [rxParts EXCEPT ![k] =
                 IF again THEN [p EXCEPT !.tries = p.tries + 1]
                 ELSE [p EXCEPT !.st = "done", !.tries = 0, !.reader = body]]
    /\ UNCHANGED <<rx, rxRest>>

\* linkbox.go 1154, 1172, 1185, 1190: the single DownloadRange is returned as it is
OpenReturnSingle ==
    /\ rx.pc = "download"
    /\ rx.path \in {"plain", "single"}
    /\ rxParts[1].st = "done"
    /\ rx' = [rx EXCEPT !.pc = "returned",
                        !.err = (rxParts[1].reader = Nil),
                        !.readers = IF rxParts[1].reader = Nil THEN <<>>
                                    ELSE <<rxParts[1].reader>>]
    /\ UNCHANGED <<rxParts, rxRest>>

\* the join returning its error with the opened parts left open
OpenJoinLeavingOpen ==
    /\ rx.pc = "download"
    /\ rx.path = "parallel"
    /\ \A k \in DOMAIN rxParts : rxParts[k].st = "done"
    /\ LET numSuccessfulParts ==
               Cardinality({k \in DOMAIN rxParts : rxParts[k].reader # Nil})
       IN  IF numSuccessfulParts # Len(rxParts)
           THEN /\ rx' = [rx EXCEPT !.pc = "returned", !.err = TRUE]
                /\ UNCHANGED rxParts
           ELSE /\ rx' = [rx EXCEPT !.pc = "returned", !.err = FALSE,
                            !.readers = [k \in DOMAIN rxParts |-> rxParts[k].reader]]
                /\ UNCHANGED rxParts
    /\ UNCHANGED rxRest

\* linkbox.go 1210-1229: wg.Wait(), the count of non-nil parts, and either the
\* close of the opened parts or the MultiReadCloser over all of them
OpenJoin ==
    /\ rx.pc = "download"
    /\ rx.path = "parallel"
    /\ \A k \in DOMAIN rxParts : rxParts[k].st = "done"
    /\ LET numSuccessfulParts ==
               Cardinality({k \in DOMAIN rxParts : rxParts[k].reader # Nil})
       IN  IF numSuccessfulParts # Len(rxParts)
           THEN /\ rxParts' = [k \in DOMAIN rxParts |->
                                 [rxParts[k] EXCEPT
                                    !.closed = (rxParts[k].reader # Nil)]]
                /\ rx' = [rx EXCEPT !.pc = "returned", !.err = TRUE]
           ELSE /\ rx' = [rx EXCEPT !.pc = "returned", !.err = FALSE,
                            !.readers = [k \in DOMAIN rxParts |-> rxParts[k].reader]]
                /\ UNCHANGED rxParts
    /\ UNCHANGED rxRest

OpenNext ==
    \/ OpenStart
    \/ \E k \in 1..(MaxRxConcurrency + 2) : DownloadAttempt(k)
    \/ OpenReturnSingle
    \/ OpenJoin

SpecOpen == OpenInit /\ [][OpenNext]_vars

\* the readers, read one after the other, deliver bytes a..b each once, ascending
Tiles(readers, a, b) ==
    /\ Len(readers) >= 1
    /\ \A k \in 1..Len(readers) :
         readers[k].kind = "bytes" /\ readers[k].from <= readers[k].to
    /\ readers[1].from = a
    /\ readers[Len(readers)].to = b
    /\ \A k \in 1..(Len(readers) - 1) : readers[k + 1].from = readers[k].to + 1

\* C2: an Open with one valid range [start, end] that takes the parallel path
\* and whose part requests were all answered with their ranged content delivers
\* exactly bytes start..end, each once and in ascending order, for every
\* completion order and every remainder L mod N.
C2_CompositeIsRange ==
    (/\ rx.pc = "returned"
     /\ rx.path = "parallel"
     /\ ~rx.err
     /\ \A k \in DOMAIN rxParts : rxParts[k].reader.kind = "bytes")
    => Tiles(rx.readers, rx.optStart, rx.optEnd)

\* C3 as stated: 5 MiB, range 0..5242879, concurrency 3: three part reads of
\* 1747626, 1747626 and 1747628 bytes.
C3_ThreePartReads ==
    (/\ rx.pc = "download"
     /\ rx.MultipartRxConcurrency = 3
     /\ rx.optStart = 0 /\ rx.optEnd = 5242879)
    => /\ Len(rxParts) = 3
       /\ [k \in 1..3 |-> rxParts[k].end - rxParts[k].start + 1]
            = <<1747626, 1747626, 1747628>>

\* C3 amended: the same Open issues four ranged part reads, of 1747626,
\* 1747626, 1747626 and 2 bytes (the remainder goes to an extra part).
C3_FourPartReads ==
    (/\ rx.pc \in {"download", "returned"}
     /\ rx.MultipartRxConcurrency = 3
     /\ rx.optStart = 0 /\ rx.optEnd = 5242879)
    => /\ rx.path = "parallel"
       /\ Len(rxParts) = 4
       /\ [k \in 1..4 |-> rxParts[k].end - rxParts[k].start + 1]
            = <<1747626, 1747626, 1747626, 2>>
       /\ \A k \in 1..4 : ~IsPlainRequest(rxParts[k].start, rxParts[k].end)

\* the 5 MiB Open has returned its composite reader
C3_Witness ==
    /\ rx.pc = "returned"
    /\ rx.MultipartRxConcurrency = 3
    /\ rx.optStart = 0 /\ rx.optEnd = 5242879
    /\ ~rx.err
    /\ Tiles(rx.readers, 0, 5242879)

(***************************************************************************)
(* The remote and the path operations                                      *)
(*                                                                         *)
(* A name is <<base, n>>: base alone when n = 0, base "__" n otherwise. A  *)
(* path is the sequence of its components; Dot is the component "." that   *)
(* path.Dir gives for a path without a slash. f.root is "". The remote     *)
(* keeps sibling names unique and answers a create, rename or move onto a  *)
(* taken name with status 1501; an entity's item-ID is its numeric ID.     *)
(***************************************************************************)

maxEntitiesPerPage == 64

\* bounds of the path model
MaxDepth == 2
MaxId == 4
MaxFaultAt == 3

BaseOrder == <<"a", "b">>
Bases == {BaseOrder[k] : k \in DOMAIN BaseOrder}
Names == {<<b, 0>> : b \in Bases}
Rank(name) == CHOOSE k \in DOMAIN BaseOrder : BaseOrder[k] = name[1]
Dot == <<".", 0>>
NoName == <<"", 0>>
Suffixed(name, n) == <<name[1], n>>

RECURSIVE PathsOfLen(_)
PathsOfLen(n) ==
    IF n = 0 THEN {<<>>}
    ELSE {Append(q, x) : q \in PathsOfLen(n - 1), x \in Names}
Paths == UNION {PathsOfLen(n) : n \in 1..MaxDepth}

Front(q) == SubSeq(q, 1, Len(q) - 1)
Last(q) == q[Len(q)]

\* path.Dir, path.Base, path.Join(f.root, remote) with f.root = ""
PathDir(q) == IF Len(q) <= 1 THEN <<Dot>> ELSE Front(q)
PathBase(q) == IF q = <<>> THEN Dot ELSE Last(q)
PathClean(q) == SelectSeq(q, LAMBDA x : x # Dot)
JoinRoot(q) ==
    IF q = <<>> THEN <<>>
    ELSE IF PathClean(q) = <<>> THEN <<Dot>>
    ELSE PathClean(q)
\* a path string with "__" n appended
WithSuffix(q, n) == IF n = 0 THEN q ELSE Append(Front(q), Suffixed(Last(q), n))

\* a request fails (_GetUnmarshaledResponse returns an error, the low-level
\* retries included) when its number, within the backend call, lies in the
\* window of the fault plan: one request, or every request from one on.
\* lag is the remote reflecting changes slowly: what the call creates does
\* not show in file_search before the call ends; noItemId is a bind response
\* without an item-ID; foreign is a file_search answered with the entries
\* of every parent, which the lookups filter by parent ID
NoFaults ==
    [from |-> 0, to |-> 0, lag |-> FALSE, noItemId |-> FALSE, refuse |-> FALSE,
     foreign |-> FALSE]
Plans ==
    {NoFaults}
    \cup {[NoFaults EXCEPT !.from = k, !.to = k] : k \in 1..MaxFaultAt}
    \cup {[NoFaults EXCEPT !.from = k] : k \in 1..MaxFaultAt}
UploadPlans ==
    Plans \cup {[NoFaults EXCEPT !.refuse = TRUE],
                [NoFaults EXCEPT !.lag = TRUE],
                [NoFaults EXCEPT !.lag = TRUE, !.noItemId = TRUE]}
Faulty(plan, n) ==
    plan.from > 0 /\ n >= plan.from /\ (plan.to = 0 \/ n <= plan.to)

\* bad holds the numbers of the requests that failed, first the first ID the
\* remote hands out during the call
NewCtx(es, nid, plan) ==
    [ents |-> es, nextId |-> nid, n |-> 0, faults |-> 0, log |-> <<>>,
     plan |-> plan, bad |-> {}, first |-> nid, answers |-> <<>>,
     accToken |-> "", configured |-> 0, MultipartTxConcurrency |-> 0]

\* the answers of login_email: a transport error, a refusal, status 1 with
\* an empty and with a real token
LoginAnswers ==
    {[err |-> TRUE, status |-> 0, token |-> ""],
     [err |-> FALSE, status |-> 0, token |-> "acc"],
     [err |-> FALSE, status |-> 1, token |-> ""],
     [err |-> FALSE, status |-> 1, token |-> "acc"]}

\* linkbox.go 333-359: f.accToken after _UpdateAccountToken; creds is email
\* and password both being set
UpdateAccountToken(creds, answer) ==
    IF ~creds THEN ""
    ELSE IF answer.err \/ answer.status # 1 THEN ""
    ELSE answer.token

\* the construction without the downgrade of lines 203-205
NewFsKeepingConcurrency(c, MultipartTxConcurrency, creds, answer) ==
    LET WithToken(accToken) ==
            [c EXCEPT !.accToken = accToken,
                      !.configured = MultipartTxConcurrency,
                      !.MultipartTxConcurrency = MultipartTxConcurrency]
    IN  WithToken(UpdateAccountToken(creds, answer))

\* linkbox.go 182, 199-205: the token and the upload concurrency NewFs leaves
\* in the Fs
NewFs(c, MultipartTxConcurrency, creds, answer) ==
    LET WithToken(accToken) ==
            [c EXCEPT !.accToken = accToken,
                      !.configured = MultipartTxConcurrency,
                      !.MultipartTxConcurrency =
                          IF accToken = "" THEN 0 ELSE MultipartTxConcurrency]
    IN  WithToken(UpdateAccountToken(creds, answer))

Req(api, id, pid, name, page) ==
    [api |-> api, id |-> id, pid |-> pid, name |-> name, page |-> page]

NoEntity == [id |-> 0, pid |-> 0, name |-> NoName, type |-> ""]
IsDirType(e) == e.type = "dir"

Children(es, pid) == {e \in es : e.pid = pid}

RECURSIVE ById(_)
ById(S) ==
    IF S = {} THEN <<>>
    ELSE LET first == CHOOSE e \in S : \A f \in S : e.id <= f.id
         IN  <<first>> \o ById(S \ {first})

RECURSIVE Subtree(_, _)
\* the entities below the folder id, at any depth
Subtree(es, id) ==
    LET kids == Children(es, id)
    IN  kids \cup UNION {Subtree(es \ kids, k.id) : k \in kids}

\* file_search with an empty name filter: one page of the parent's entries
SearchPage(es, pid, pageNo) ==
    LET all == ById(Children(es, pid))
    IN  SubSeq(all, (pageNo - 1) * maxEntitiesPerPage + 1,
               Min(pageNo * maxEntitiesPerPage, Len(all)))

\* one page of a file_search that is not restricted to the parent
AnyParentPage(es, pageNo) ==
    SubSeq(ById(es), (pageNo - 1) * maxEntitiesPerPage + 1,
           Min(pageNo * maxEntitiesPerPage, Cardinality(es)))

Answer(es, nid, status, list, itemId) ==
    [ents |-> es, nextId |-> nid, status |-> status, list |-> list,
     itemId |-> itemId]

NameTaken(es, pid, name) == \E e \in es : e.pid = pid /\ e.name = name
Entity(es, id) == CHOOSE e \in es : e.id = id
Exists(es, id, dir) == \E e \in es : e.id = id /\ IsDirType(e) = dir
FolderExists(es, id) == id = 0 \/ Exists(es, id, TRUE)

\* what the remote does with one request
Remote(es, nid, q) ==
    CASE q.api = "file_search" ->
           Answer(es, nid, 1, SearchPage(es, q.pid, q.page), 0)
      [] q.api \in {"folder_create", "folder_upload_file", "create_item"} ->
           IF ~FolderExists(es, q.pid) THEN Answer(es, nid, 500, <<>>, 0)
           ELSE IF NameTaken(es, q.pid, q.name) THEN Answer(es, nid, 1501, <<>>, 0)
           ELSE Answer(es \cup {[id |-> nid, pid |-> q.pid, name |-> q.name,
                                 type |-> IF q.api = "folder_create"
                                          THEN "dir" ELSE "file"]},
                       nid + 1, 1, <<>>, nid)
      [] q.api \in {"folder_edit", "file_rename"} ->
           IF ~Exists(es, q.id, q.api = "folder_edit")
           THEN Answer(es, nid, 500, <<>>, 0)
           ELSE LET e == Entity(es, q.id) IN
                IF NameTaken(es, e.pid, q.name) THEN Answer(es, nid, 1501, <<>>, 0)
                ELSE Answer((es \ {e}) \cup {[e EXCEPT !.name = q.name]},
                            nid, 1, <<>>, 0)
      [] q.api \in {"folder_move", "file_move"} ->
           IF \/ ~Exists(es, q.id, q.api = "folder_move")
              \/ ~FolderExists(es, q.pid)
              \/ q.pid = q.id
              \/ q.pid \in {d.id : d \in Subtree(es, q.id)}
           THEN Answer(es, nid, 500, <<>>, 0)
           ELSE LET e == Entity(es, q.id) IN
                IF NameTaken(es, q.pid, e.name) THEN Answer(es, nid, 1501, <<>>, 0)
                ELSE Answer((es \ {e}) \cup {[e EXCEPT !.pid = q.pid]},
                            nid, 1, <<>>, 0)
      [] q.api = "folder_del" ->
           IF ~Exists(es, q.id, TRUE) THEN Answer(es, nid, 500, <<>>, 0)
           ELSE Answer(es \ ({Entity(es, q.id)} \cup Subtree(es, q.id)),
                       nid, 1, <<>>, 0)
      [] q.api = "file_del" ->
           IF ~Exists(es, q.id, FALSE) THEN Answer(es, nid, 500, <<>>, 0)
           ELSE Answer(es \ {Entity(es, q.id)}, nid, 1, <<>>, 0)
      [] OTHER -> Answer(es, nid, 1, <<>>, 0)

\* linkbox.go 301-317: one control-plane call and its unmarshalled response
Api(c, q) ==
    LET Answered(bad, r) ==
            [c |-> [c EXCEPT !.n = @ + 1, !.ents = r.ents, !.nextId = r.nextId,
                             !.log = Append(@, q),
                             !.faults = @ + (IF bad THEN 1 ELSE 0),
                             !.bad = IF bad THEN @ \cup {c.n + 1} ELSE @,
                             !.answers = Append(@, IF bad THEN 0 ELSE r.status)],
             err |-> bad,
             status |-> r.status,
             list |-> IF c.plan.lag
                      THEN SelectSeq(r.list, LAMBDA e : e.id < c.first)
                      ELSE IF c.plan.foreign /\ q.api = "file_search"
                      THEN AnyParentPage(r.ents, q.page)
                      ELSE r.list,
             itemId |-> IF c.plan.noItemId THEN 0 ELSE r.itemId]
    IN  IF Faulty(c.plan, c.n + 1)
        THEN Answered(TRUE, Answer(c.ents, c.nextId, 500, <<>>, 0))
        ELSE Answered(FALSE, Remote(c.ents, c.nextId, q))

\* linkbox.go 319-331
makeSearchQuery(pid, pageNumber) == Req("file_search", 0, pid, NoName, pageNumber)

Ret(c, err, pid) == [c |-> c, err |-> err, pid |-> pid]

RECURSIVE ScanDirs(_, _, _)
\* linkbox.go 264-271: the loop over one page's entities; pid is compared
\* and overwritten as the loop goes
ScanDirs(list, pid, tdir) ==
    IF list = <<>> THEN pid
    ELSE LET e == Head(list)
         IN  ScanDirs(Tail(list),
                      IF e.pid = pid /\ IsDirType(e) /\ e.name = tdir
                      THEN e.id ELSE pid,
                      tdir)

RECURSIVE FindDirPages(_, _, _, _)
\* linkbox.go 245-286: the pages of one path component
FindDirPages(c, pid, tdir, pageNumber) ==
    LET Page(r, found) ==
            IF r.err THEN Ret(r.c, "neterr", 0)
            ELSE IF Len(r.list) = 0 THEN Ret(r.c, "ErrorDirNotFound", 0)
            ELSE IF found # pid THEN Ret(r.c, "nil", found)
            ELSE IF pageNumber > 100000 THEN Ret(r.c, "other", 0)
            ELSE IF Len(r.list) = maxEntitiesPerPage
                 THEN FindDirPages(r.c, pid, tdir, pageNumber + 1)
            ELSE Ret(r.c, "ErrorDirNotFound", 0)
        Searched(r) == Page(r, ScanDirs(r.list, pid, tdir))
    IN  Searched(Api(c, makeSearchQuery(pid, pageNumber)))

RECURSIVE WalkDirs(_, _, _)
\* linkbox.go 244-289: the loop over the path's components
WalkDirs(c, dirs, pid) ==
    IF dirs = <<>> THEN Ret(c, "nil", pid)
    ELSE LET Level(r) ==
                 IF r.err # "nil" THEN r ELSE WalkDirs(r.c, Tail(dirs), r.pid)
         IN  Level(FindDirPages(c, pid, Head(dirs), 1))

\* linkbox.go 235-290
getIdByDir(c, dir) ==
    IF dir = <<>> \/ dir = <<Dot>> THEN Ret(c, "nil", 0)
    ELSE WalkDirs(c, dir, 0)

RECURSIVE GetIdByDirAttempts(_, _, _)
GetIdByDirAttempts(c, dir, tries) ==
    LET Attempt(r) ==
            IF r.err = "nil" \/ tries + 1 >= MaxTries THEN r
            ELSE GetIdByDirAttempts(r.c, dir, tries + 1)
    IN  Attempt(getIdByDir(c, dir))

\* linkbox.go 226-233
getIdByDirWithRetries(c, dir) == GetIdByDirAttempts(c, dir, 0)

RetObj(c, err, obj) == [c |-> c, err |-> err, obj |-> obj]

RECURSIVE FirstMatch(_, _, _)
\* linkbox.go 537-543
FirstMatch(list, pid, name) ==
    IF list = <<>> THEN NoEntity
    ELSE IF Head(list).pid = pid /\ Head(list).name = name THEN Head(list)
    ELSE FirstMatch(Tail(list), pid, name)

RECURSIVE GetObjectPages(_, _, _, _)
\* linkbox.go 523-558
GetObjectPages(c, name, pid, pageNumber) ==
    LET Page(r, hit) ==
            IF r.err THEN RetObj(r.c, "neterr", NoEntity)
            ELSE IF r.status # 1 THEN RetObj(r.c, "other", NoEntity)
            ELSE IF hit # NoEntity THEN RetObj(r.c, "nil", hit)
            ELSE IF pageNumber > 100000 THEN RetObj(r.c, "other", NoEntity)
            ELSE IF Len(r.list) = maxEntitiesPerPage
                 THEN GetObjectPages(r.c, name, pid, pageNumber + 1)
            ELSE RetObj(r.c, "ErrorObjectNotFound", NoEntity)
        Searched(r) == Page(r, FirstMatch(r.list, pid, name))
    IN  Searched(Api(c, makeSearchQuery(pid, pageNumber)))

\* linkbox.go 516-559
getObject(c, name, pid) == GetObjectPages(c, name, pid, 1)

RECURSIVE GetObjectAttempts(_, _, _, _)
GetObjectAttempts(c, name, pid, tries) ==
    LET Attempt(r) ==
            IF r.err = "nil" \/ tries + 1 >= MaxTries THEN r
            ELSE GetObjectAttempts(r.c, name, pid, tries + 1)
    IN  Attempt(getObject(c, name, pid))

\* linkbox.go 507-514
getObjectWithRetries(c, name, pid) == GetObjectAttempts(c, name, pid, 0)

\* linkbox.go 462-473, applied to path.Join(f.root, remote)
SplitDir(remote) == IF JoinRoot(remote) = <<>> THEN <<>> ELSE Front(JoinRoot(remote))
SplitName(remote) == IF JoinRoot(remote) = <<>> THEN NoName ELSE Last(JoinRoot(remote))

\* linkbox.go 571-609
NewObjectAt(c, remote, allowDir) ==
    LET Looked(o) ==
            IF o.err # "nil" THEN o
            ELSE IF o.obj = NoEntity THEN RetObj(o.c, "ErrorObjectNotFound", NoEntity)
            ELSE IF ~allowDir /\ IsDirType(o.obj) THEN RetObj(o.c, "ErrorIsDir", NoEntity)
            ELSE o
        Parent(d) ==
            IF d.err # "nil" THEN RetObj(d.c, "ErrorObjectNotFound", NoEntity)
            ELSE Looked(getObject(d.c, SplitName(remote), d.pid))
    IN  Parent(getIdByDir(c, SplitDir(remote)))

\* linkbox.go 567-569
NewObject(c, remote) == NewObjectAt(c, remote, FALSE)

RetErr(c, err) == [c |-> c, err |-> err]

RECURSIVE MkdirLevelsRejecting1501(_, _, _)
\* the loop with status 1 alone accepted below the last level
MkdirLevelsRejecting1501(c, dirs, lvl) ==
    LET Created(r) ==
            IF r.err THEN RetErr(r.c, "other")
            ELSE IF lvl + 1 = Len(dirs) THEN RetErr(r.c, "nil")
            ELSE IF r.status # 1 THEN RetErr(r.c, "other")
            ELSE MkdirLevelsRejecting1501(r.c, dirs, lvl + 1)
        Parent(p) ==
            IF p.err # "nil" THEN RetErr(p.c, p.err)
            ELSE Created(Api(p.c, Req("folder_create", 0, p.pid, dirs[lvl + 1], 0)))
    IN  Parent(getIdByDirWithRetries(c, SubSeq(dirs, 1, lvl)))

RECURSIVE MkdirLevels(_, _, _)
\* linkbox.go 658-696: the loop over dirs = "", d1, .., dn at index lvl
\* (0-based): the parent is d1/../d(lvl), the folder created d(lvl+1)
MkdirLevels(c, dirs, lvl) ==
    LET Created(r) ==
            IF r.err THEN RetErr(r.c, "other")
            ELSE IF lvl + 1 = Len(dirs) THEN RetErr(r.c, "nil")
            ELSE IF r.status # 1 /\ r.status # 1501 THEN RetErr(r.c, "other")
            ELSE MkdirLevels(r.c, dirs, lvl + 1)
        Parent(p) ==
            IF p.err # "nil" THEN RetErr(p.c, p.err)
            ELSE Created(Api(p.c, Req("folder_create", 0, p.pid, dirs[lvl + 1], 0)))
    IN  Parent(getIdByDirWithRetries(c, SubSeq(dirs, 1, lvl)))

\* Mkdir without the closing lookup of lines 699-702
MkdirUnverified(c, dir) ==
    IF JoinRoot(dir) = <<>> THEN RetErr(c, "nil")
    ELSE MkdirLevels(c, JoinRoot(dir), 0)

\* linkbox.go 645-705
Mkdir(c, dir) ==
    IF JoinRoot(dir) = <<>> THEN RetErr(c, "nil")
    ELSE LET Verified(v) == RetErr(v.c, IF v.err # "nil" THEN "other" ELSE "nil")
             Made(m) ==
                 IF m.err # "nil" THEN m
                 ELSE Verified(getIdByDirWithRetries(m.c, JoinRoot(dir)))
         IN  Made(MkdirLevels(c, JoinRoot(dir), 0))

RetList(c, err, files) == [c |-> c, err |-> err, files |-> files]

RECURSIVE ParsePages(_, _, _, _)
\* linkbox.go 419-459
ParsePages(c, pid, pageNumber, files) ==
    LET Page(r) ==
            IF r.err THEN RetList(r.c, "other", <<>>)
            ELSE IF r.status # 1 THEN RetList(r.c, "other", <<>>)
            ELSE IF pageNumber > 100000 THEN RetList(r.c, "other", files \o r.list)
            ELSE IF Len(r.list) = maxEntitiesPerPage
                 THEN ParsePages(r.c, pid, pageNumber + 1, files \o r.list)
            ELSE RetList(r.c, "nil", files \o r.list)
    IN  Page(Api(c, makeSearchQuery(pid, pageNumber)))

\* linkbox.go 402-460
parse(c, dir) ==
    LET Parent(d) ==
            IF d.err # "nil" THEN RetList(d.c, d.err, <<>>)
            ELSE ParsePages(d.c, d.pid, 1, <<>>)
    IN  Parent(getIdByDir(c, JoinRoot(dir)))

\* linkbox.go 490-502: an entry is the object's path below dir and its kind
DirEntry(dir, obj) ==
    [remote |-> Append(dir, obj.name), isDir |-> IsDirType(obj), id |-> obj.id]

\* linkbox.go 484-505
List(c, dir) ==
    LET Parsed(r) ==
            IF r.err # "nil" THEN RetList(r.c, r.err, <<>>)
            ELSE RetList(r.c, "nil",
                         [k \in 1..Len(r.files) |-> DirEntry(dir, r.files[k])])
    IN  Parsed(parse(c, dir))

\* linkbox.go 709-748
purgeCheck(c, dir, check) ==
    LET Deleted(r) ==
            IF r.err THEN RetErr(r.c, "other")
            ELSE IF r.status # 1 THEN RetErr(r.c, "other")
            ELSE RetErr(r.c, "nil")
        Found(d) ==
            IF d.err # "nil" THEN RetErr(d.c, d.err)
            ELSE Deleted(Api(d.c, Req("folder_del", d.pid, 0, NoName, 0)))
        Listed(l) ==
            IF check /\ Len(l.files) # 0 THEN RetErr(l.c, "ErrorDirectoryNotEmpty")
            ELSE IF JoinRoot(dir) = <<>> THEN RetErr(l.c, "ErrorDirNotFound")
            ELSE Found(getIdByDir(l.c, JoinRoot(dir)))
    IN  Listed(parse(c, dir))

\* linkbox.go 753-755
Rmdir(c, dir) == purgeCheck(c, dir, TRUE)

\* linkbox.go 762-764
Purge(c, dir) == purgeCheck(c, dir, FALSE)

\* the error of a control-plane call that accepts the statuses in ok
Accepted(r, ok) ==
    RetErr(r.c, IF r.err THEN "neterr" ELSE IF r.status \notin ok THEN "other" ELSE "nil")

\* folder_edit accepting 1501 as the file calls do
ServerFolderEditAccepting1501(c, dirId, name) ==
    Accepted(Api(c, Req("folder_edit", dirId, 0, name, 0)), {1, 1501})

\* linkbox.go 770-794, 796-816: the folder calls accept status 1 only
ServerFolderEdit(c, dirId, name) ==
    Accepted(Api(c, Req("folder_edit", dirId, 0, name, 0)), {1})

ServerFolderMove(c, dirId, pid) ==
    Accepted(Api(c, Req("folder_move", dirId, pid, NoName, 0)), {1})

\* linkbox.go 1015-1035, 1037-1057: the file calls accept status 1 and 1501
ServerFileRename(c, itemId, name) ==
    Accepted(Api(c, Req("file_rename", itemId, 0, name, 0)), {1, 1501})

ServerFileMove(c, itemId, pid) ==
    Accepted(Api(c, Req("file_move", itemId, pid, NoName, 0)), {1, 1501})

RECURSIVE NewObjectAttempts(_, _, _, _)
\* linkbox.go 910-913, 1004-1007: the confirming lookup under the pacer
NewObjectAttempts(c, remote, allowDir, tries) ==
    LET Attempt(r) ==
            IF r.err = "nil" \/ tries + 1 >= MaxTries THEN r
            ELSE NewObjectAttempts(r.c, remote, allowDir, tries + 1)
    IN  Attempt(NewObjectAt(c, remote, allowDir))

\* linkbox.go 842-845, 876-879, 968-971: the destination parent, created when
\* it is missing; the second lookup retries in the temporary-name branches
DstParent(c, dstDir, mkdirDir, retrying) ==
    LET Made(m, p) ==
            IF m.err # "nil" THEN Ret(m.c, p.err, p.pid)
            ELSE IF retrying THEN getIdByDirWithRetries(m.c, dstDir)
            ELSE getIdByDir(m.c, dstDir)
        Parent(p) ==
            IF p.err # "ErrorDirNotFound" THEN p
            ELSE Made(Mkdir(p.c, mkdirDir), p)
    IN  Parent(getIdByDir(c, dstDir))

\* linkbox.go 885-903: rename to the temporary leaf, move, rename to the
\* final leaf when the temporary leaf differs from it
FolderRenameMoveRename(c, id, pid, tmpLeaf, leaf) ==
    LET Final(f) == RetErr(f.c, IF f.err # "nil" THEN "ErrorCantDirMove" ELSE "nil")
        Moved(v) ==
            IF v.err # "nil" THEN RetErr(v.c, "ErrorCantDirMove")
            ELSE IF tmpLeaf = leaf THEN RetErr(v.c, "nil")
            ELSE Final(ServerFolderEdit(v.c, id, leaf))
        Renamed(e) ==
            IF e.err # "nil" THEN RetErr(e.c, "ErrorCantDirMove")
            ELSE Moved(ServerFolderMove(e.c, id, pid))
    IN  Renamed(ServerFolderEdit(c, id, tmpLeaf))

RECURSIVE MoveDirTmp(_, _, _, _, _)
\* linkbox.go 859-906: the loop over the temporary names
MoveDirTmp(c, srcObj, srcFull, dstRemote, t) ==
    LET dstFull == JoinRoot(dstRemote)
        srcPath == WithSuffix(PathDir(srcFull) \o <<PathBase(dstFull)>>, t)
        dstPath == WithSuffix(dstFull, t)
        Parent(p) ==
            IF p.err # "nil" THEN RetErr(p.c, "ErrorCantDirMove")
            ELSE FolderRenameMoveRename(p.c, srcObj.id, p.pid, PathBase(srcPath),
                                        PathBase(dstFull))
        DstSeen(d) ==
            IF d.err = "nil" THEN MoveDirTmp(d.c, srcObj, srcFull, dstRemote, t + 1)
            ELSE Parent(DstParent(d.c, PathDir(dstPath), PathDir(dstRemote), TRUE))
        SrcSeen(s) ==
            IF s.err = "nil" THEN MoveDirTmp(s.c, srcObj, srcFull, dstRemote, t + 1)
            ELSE DstSeen(getIdByDir(s.c, dstPath))
    IN  IF t > 100 THEN RetErr(c, "nil")
        ELSE SrcSeen(getIdByDir(c, srcPath))

\* linkbox.go 836-907: the three cases
MoveDirCases(c, srcObj, srcFull, dstRemote) ==
    LET dstFull == JoinRoot(dstRemote)
        Called(r) == RetErr(r.c, IF r.err # "nil" THEN "ErrorCantDirMove" ELSE "nil")
        Parent(p) ==
            IF p.err # "nil" THEN RetErr(p.c, "ErrorCantDirMove")
            ELSE Called(ServerFolderMove(p.c, srcObj.id, p.pid))
    IN  IF PathDir(srcFull) = PathDir(dstFull)
        THEN Called(ServerFolderEdit(c, srcObj.id, PathBase(dstFull)))
        ELSE IF PathBase(srcFull) = PathBase(dstFull)
        THEN Parent(DstParent(c, PathDir(dstFull), PathDir(dstRemote), FALSE))
        ELSE MoveDirTmp(c, srcObj, srcFull, dstRemote, 0)

\* linkbox.go 818-919
MoveDir(c, srcObj, srcRemote, dstRemote) ==
    LET Confirmed(o) ==
            IF o.err # "nil" THEN RetObj(o.c, "ErrorCantDirMove", NoEntity) ELSE o
        Moved(m) ==
            IF m.err # "nil" THEN RetObj(m.c, m.err, NoEntity)
            ELSE Confirmed(NewObjectAttempts(m.c, dstRemote, TRUE, 0))
        DstSeen(d) ==
            IF d.err = "nil" THEN RetObj(d.c, "ErrorDirExists", NoEntity)
            ELSE Moved(MoveDirCases(d.c, srcObj, JoinRoot(srcRemote), dstRemote))
    IN  IF JoinRoot(srcRemote) = <<>> \/ JoinRoot(dstRemote) = <<>>
        THEN RetObj(c, "ErrorCantDirMove", NoEntity)
        ELSE DstSeen(getIdByDir(c, JoinRoot(dstRemote)))

\* linkbox.go 619-640
DirMove(c, srcRemote, dstRemote) ==
    LET SrcSeen(s) ==
            IF s.err # "nil" THEN RetObj(s.c, "ErrorCantDirMove", NoEntity)
            ELSE IF ~IsDirType(s.obj) THEN RetObj(s.c, "ErrorCantDirMove", NoEntity)
            ELSE MoveDir(s.c, s.obj, srcRemote, dstRemote)
    IN  SrcSeen(NewObjectAt(c, srcRemote, TRUE))

\* the three calls with the last rename sent whatever the temporary leaf is
FileRenameMoveRenameAlways(c, itemId, pid, tmpLeaf, leaf) ==
    LET Final(f) == RetErr(f.c, IF f.err # "nil" THEN "ErrorCantMove" ELSE "nil")
        Moved(v) ==
            IF v.err # "nil" THEN RetErr(v.c, "ErrorCantMove")
            ELSE Final(ServerFileRename(v.c, itemId, leaf))
        Renamed(e) ==
            IF e.err # "nil" THEN RetErr(e.c, "ErrorCantMove")
            ELSE Moved(ServerFileMove(e.c, itemId, pid))
    IN  Renamed(ServerFileRename(c, itemId, tmpLeaf))

\* linkbox.go 977-996
FileRenameMoveRename(c, itemId, pid, tmpLeaf, leaf) ==
    LET Final(f) == RetErr(f.c, IF f.err # "nil" THEN "ErrorCantMove" ELSE "nil")
        Moved(v) ==
            IF v.err # "nil" THEN RetErr(v.c, "ErrorCantMove")
            ELSE IF tmpLeaf = leaf THEN RetErr(v.c, "nil")
            ELSE Final(ServerFileRename(v.c, itemId, leaf))
        Renamed(e) ==
            IF e.err # "nil" THEN RetErr(e.c, "ErrorCantMove")
            ELSE Moved(ServerFileMove(e.c, itemId, pid))
    IN  Renamed(ServerFileRename(c, itemId, tmpLeaf))

RECURSIVE MoveFileTmp(_, _, _, _, _)
\* linkbox.go 950-999: the loop over the temporary names
MoveFileTmp(c, itemId, srcObjRemote, remote, t) ==
    LET dstFull == JoinRoot(remote)
        srcRemote == WithSuffix(PathDir(srcObjRemote) \o <<PathBase(remote)>>, t)
        dstRemote == WithSuffix(remote, t)
        dstPath == WithSuffix(dstFull, t)
        Parent(p) ==
            IF p.err # "nil" THEN RetErr(p.c, "ErrorCantMove")
            ELSE FileRenameMoveRename(p.c, itemId, p.pid, PathBase(srcRemote),
                                      PathBase(dstFull))
        DstSeen(d) ==
            IF d.err = "nil" THEN MoveFileTmp(d.c, itemId, srcObjRemote, remote, t + 1)
            ELSE Parent(DstParent(d.c, PathDir(dstPath), PathDir(dstRemote), TRUE))
        SrcSeen(s) ==
            IF s.err = "nil" THEN MoveFileTmp(s.c, itemId, srcObjRemote, remote, t + 1)
            ELSE DstSeen(NewObject(s.c, dstRemote))
    IN  IF t > 100 THEN RetErr(c, "nil")
        ELSE SrcSeen(NewObject(c, srcRemote))

\* linkbox.go 928-1000: the three cases
MoveFileCases(c, srcObj, remote) ==
    LET srcFull == JoinRoot(srcObj.remote)
        dstFull == JoinRoot(remote)
        Called(r) == RetErr(r.c, IF r.err # "nil" THEN "ErrorCantMove" ELSE "nil")
        Parent(p) ==
            IF p.err # "nil" THEN RetErr(p.c, "ErrorCantMove")
            ELSE Called(ServerFileMove(p.c, srcObj.itemId, p.pid))
    IN  IF PathDir(srcFull) = PathDir(dstFull)
        THEN Called(ServerFileRename(c, srcObj.itemId, PathBase(dstFull)))
        ELSE IF PathBase(srcFull) = PathBase(dstFull)
        THEN Parent(getIdByDir(c, PathDir(dstFull)))
        ELSE MoveFileTmp(c, srcObj.itemId, srcObj.remote, remote, 0)

\* _MoveFile handing the error of the confirming lookup to the caller
MoveFileReportingLookupError(c, srcObj, remote) ==
    LET Moved(m) ==
            IF m.err # "nil" THEN RetObj(m.c, m.err, NoEntity)
            ELSE NewObjectAttempts(m.c, remote, FALSE, 0)
    IN  Moved(MoveFileCases(c, srcObj, remote))

\* linkbox.go 921-1013
MoveFile(c, srcObj, remote) ==
    LET Confirmed(o) ==
            IF o.err # "nil" THEN RetObj(o.c, "ErrorCantMove", NoEntity) ELSE o
        Moved(m) ==
            IF m.err # "nil" THEN RetObj(m.c, m.err, NoEntity)
            ELSE Confirmed(NewObjectAttempts(m.c, remote, FALSE, 0))
    IN  Moved(MoveFileCases(c, srcObj, remote))

\* linkbox.go 1068-1080
Move(c, srcObj, remote) ==
    IF srcObj.isDir THEN RetObj(c, "ErrorCantMove", NoEntity)
    ELSE MoveFile(c, srcObj, remote)

minPartSize == 102400

RECURSIVE RemoveConfirm(_, _, _)
\* linkbox.go 1645-1651: the lookup repeats until the object is not found
RemoveConfirm(c, remote, tries) ==
    LET Looked(o) ==
            IF o.err = "ErrorObjectNotFound" \/ tries + 1 >= MaxTries THEN o
            ELSE RemoveConfirm(o.c, remote, tries + 1)
    IN  Looked(NewObject(c, remote))

\* linkbox.go 1624-1654: the result of the pacer's call is not looked at;
\* confirm is what the last lookup of the loop returned
Remove(c, remote, itemId) ==
    LET Confirmed(o) == [c |-> o.c, err |-> "nil", confirm |-> o.err]
        Deleted(r) ==
            IF r.err THEN [c |-> r.c, err |-> "neterr", confirm |-> "none"]
            ELSE IF r.status # 1 THEN [c |-> r.c, err |-> "other", confirm |-> "none"]
            ELSE Confirmed(RemoveConfirm(r.c, remote, 0))
    IN  Deleted(Api(c, Req("file_del", itemId, 0, NoName, 0)))

\* the lookup of lines 1365, 1496 without the removal
RemoveExistingSkipped(c, remote) == NewObject(c, remote).c

\* linkbox.go 1365-1369, 1496-1500: an object already at the path is removed,
\* whatever the removal answers
RemoveExisting(c, remote) ==
    LET Looked(t) ==
            IF t.err = "nil" THEN Remove(t.c, remote, t.obj.id).c ELSE t.c
    IN  Looked(NewObject(c, remote))

\* the commit failing whenever the search does not show the new entity
CommitWithoutFallback(c, remote, api, strict) ==
    LET Reconciled(g, r, p) ==
            IF g.err = "nil" /\ g.obj # NoEntity THEN g
            ELSE RetObj(g.c, "other", NoEntity)
        Committed(r, p) ==
            IF r.err THEN RetObj(r.c, "neterr", NoEntity)
            ELSE IF r.status # 1 THEN RetObj(r.c, "other", NoEntity)
            ELSE Reconciled(getObjectWithRetries(r.c, SplitName(remote), p.pid), r, p)
        Parent(p) ==
            IF p.err # "nil" THEN RetObj(p.c, p.err, NoEntity)
            ELSE Committed(Api(p.c, Req(api, 0, p.pid, SplitName(remote), 0)), p)
    IN  Parent(DstParent(c, SplitDir(remote), Front(remote), TRUE))

\* linkbox.go 1414-1479, 1556-1620: the parent, the metadata commit and the
\* reconciliation; strict is the multipart variant, which fails when neither
\* the listing nor the commit response names the item
Commit(c, remote, api, strict) ==
    LET Reconciled(g, r, p) ==
            IF g.err = "nil" /\ g.obj # NoEntity THEN g
            ELSE IF r.itemId # 0
            THEN RetObj(g.c, "nil", [NoEntity EXCEPT !.id = r.itemId, !.pid = p.pid])
            ELSE RetObj(g.c, IF strict THEN "other" ELSE "nil", NoEntity)
        Committed(r, p) ==
            IF r.err THEN RetObj(r.c, "neterr", NoEntity)
            ELSE IF r.status # 1 THEN RetObj(r.c, "other", NoEntity)
            ELSE Reconciled(getObjectWithRetries(r.c, SplitName(remote), p.pid), r, p)
        Parent(p) ==
            IF p.err # "nil" THEN RetObj(p.c, p.err, NoEntity)
            ELSE Committed(Api(p.c, Req(api, 0, p.pid, SplitName(remote), 0)), p)
    IN  Parent(DstParent(c, SplitDir(remote), Front(remote), TRUE))

\* the handshake answers 600 when the remote already holds the content, and
\* an error status when the remote refuses the upload
Handshake(c, api, known) ==
    LET Told(r, status) ==
            [r EXCEPT !.status = status, !.c.answers[Len(r.c.answers)] = status]
        Shaken(r) ==
            IF r.err \/ r.status # 1 THEN r
            ELSE IF c.plan.refuse THEN Told(r, 500)
            ELSE IF known THEN Told(r, 600)
            ELSE r
    IN  Shaken(Api(c, Req(api, 0, 0, NoName, 0)))

\* linkbox.go 1364-1480; the part upload of lines 1232-1362 is one data call
MultipartUpload(c, remote, known) ==
    LET Uploaded(u) ==
            IF u.err \/ u.status # 1 THEN RetObj(u.c, "other", NoEntity)
            ELSE Commit(u.c, remote, "create_item", TRUE)
        Shaken(h) ==
            IF h.err THEN RetObj(h.c, "neterr", NoEntity)
            ELSE IF h.status = 1
            THEN Uploaded(Api(h.c, Req("obs_upload_parts", 0, 0, NoName, 0)))
            ELSE IF h.status = 600 THEN Commit(h.c, remote, "create_item", TRUE)
            ELSE RetObj(h.c, "other", NoEntity)
    IN  Shaken(Handshake(RemoveExisting(c, remote), "get_file_upload_session", known))

\* the single-request upload binding whatever the PUT answered
SinglePutBindingAnyway(c, remote, known) ==
    LET Uploaded(u) == Commit(u.c, remote, "folder_upload_file", FALSE)
        Shaken(h) ==
            IF h.err THEN RetObj(h.c, "neterr", NoEntity)
            ELSE IF h.status = 1
            THEN Uploaded(Api(h.c, Req("obs_put", 0, 0, NoName, 0)))
            ELSE IF h.status = 600
            THEN Commit(h.c, remote, "folder_upload_file", FALSE)
            ELSE RetObj(h.c, "other", NoEntity)
    IN  Shaken(Handshake(c, "get_upload_url", known))

\* linkbox.go 1504-1621: the single-request upload
SinglePut(c, remote, known) ==
    LET Uploaded(u) ==
            IF u.err \/ u.status # 1 THEN RetObj(u.c, "neterr", NoEntity)
            ELSE Commit(u.c, remote, "folder_upload_file", FALSE)
        Shaken(h) ==
            IF h.err THEN RetObj(h.c, "neterr", NoEntity)
            ELSE IF h.status = 1
            THEN Uploaded(Api(h.c, Req("obs_put", 0, 0, NoName, 0)))
            ELSE IF h.status = 600
            THEN Commit(h.c, remote, "folder_upload_file", FALSE)
            ELSE RetObj(h.c, "other", NoEntity)
    IN  Shaken(Handshake(c, "get_upload_url", known))

\* Update with the size test of line 1492 placed after the replacement of
\* lines 1496-1500
UpdateLateSizeTest(c, remote, size, MultipartTxConcurrency, known) ==
    IF MultipartTxConcurrency > 0 /\ size >= minPartSize
    THEN MultipartUpload(c, remote, known)
    ELSE IF size = 0
    THEN RetObj(RemoveExisting(c, remote), "ErrorCantUploadEmptyFiles", NoEntity)
    ELSE SinglePut(RemoveExisting(c, remote), remote, known)

\* linkbox.go 1487-1621
Update(c, remote, size, MultipartTxConcurrency, known) ==
    IF MultipartTxConcurrency > 0 /\ size >= minPartSize
    THEN MultipartUpload(c, remote, known)
    ELSE IF size = 0 THEN RetObj(c, "ErrorCantUploadEmptyFiles", NoEntity)
    ELSE SinglePut(RemoveExisting(c, remote), remote, known)

\* linkbox.go 1754-1758, 1461, 1477, 1601, 1618: the handle carries the
\* declared size
Sized(r, size) == [c |-> r.c, err |-> r.err, obj |-> r.obj, size |-> size]

\* linkbox.go 1753-1761
Put(c, remote, size, MultipartTxConcurrency, known) ==
    Sized(Update(c, remote, size, MultipartTxConcurrency, known), size)

(***************************************************************************)
(* The backend operations as actions on the remote                         *)
(***************************************************************************)

Sizes == {0, 1, minPartSize}
Concurrencies == {0, 1}

RECURSIVE Resolve(_, _, _)
\* the entity a path names on the remote, NoEntity when there is none
Resolve(es, q, pid) ==
    LET hits == {e \in es : e.pid = pid /\ e.name = Head(q)} IN
    IF hits = {} THEN NoEntity
    ELSE LET e == CHOOSE x \in hits : TRUE IN
         IF Len(q) = 1 THEN e
         ELSE IF IsDirType(e) THEN Resolve(es, Tail(q), e.id)
         ELSE NoEntity
At(es, q) == IF q = <<>> THEN NoEntity ELSE Resolve(es, q, 0)
IsDirAt(es, q) == At(es, q) # NoEntity /\ IsDirType(At(es, q))
IsFileAt(es, q) == At(es, q) # NoEntity /\ ~IsDirType(At(es, q))

\* the object NewObject hands out for a file of the remote
Handle(es, q) ==
    [remote |-> q, id |-> At(es, q).id, itemId |-> At(es, q).id, isDir |-> FALSE]

Mutating ==
    {"folder_create", "folder_del", "folder_edit", "folder_move", "file_del",
     "file_rename", "file_move", "obs_put", "obs_upload_parts",
     "folder_upload_file", "create_item"}
Mutations(log) == SelectSeq(log, LAMBDA q : q.api \in Mutating)

\* the entity n may follow the entities 1..n-1 of t: the IDs number the
\* entities folder by folder, and by name within a folder, which picks one
\* numbering of each tree (the code takes IDs as opaque)
InOrder(t, n, p, x) ==
    \A e \in t : e.id = n - 1 =>
        \/ p > e.pid
        \/ p = e.pid /\ Rank(x) > Rank(e.name)

RECURSIVE Trees(_)
\* the remotes of n entities: each entity lies in the root or in a folder
\* that exists, under a name free there
Trees(n) ==
    IF n = 0 THEN {{}}
    ELSE UNION {{t \cup {[id |-> n, pid |-> p, name |-> x, type |-> ty]} :
                    p \in {0} \cup {d.id : d \in {e \in t : IsDirType(e)}},
                    x \in Names,
                    ty \in {"dir", "file"}} : t \in Trees(n - 1)}
ValidTree(t) ==
    /\ \A e, f \in t : (e.pid = f.pid /\ e.name = f.name) => e = f
    /\ \A e \in t : InOrder(t, e.id, e.pid, e.name)
InitialRemotes == {t \in UNION {Trees(n) : n \in 0..MaxId} : ValidTree(t)}

Fresh == lastOp.op = "none"

\* the call's effect on the remote, and the record of the call: its
\* arguments, its result, the requests it sent and the remote it started on
Done(op, src, dst, size, conc, r, obj) ==
    /\ r.c.nextId <= MaxId + 1
    /\ ents' = r.c.ents
    /\ nextId' = r.c.nextId
    /\ lastOp' = [op |-> op, src |-> src, dst |-> dst, size |-> size,
                  conc |-> conc, rep |-> IF Fresh THEN 1 ELSE 2,
                  prev |-> IF Fresh THEN "none" ELSE lastOp.err,
                  err |-> r.err, obj |-> obj, log |-> r.c.log,
                  faults |-> r.c.faults, pre |-> ents,
                  bad |-> r.c.bad, plan |-> r.c.plan, answers |-> r.c.answers,
                  accToken |-> r.c.accToken, configured |-> r.c.configured]
    /\ UNCHANGED <<upVars, rxVars, callVars>>

\* the remote holds any tree; a behaviour is one backend call on it, and for
\* Mkdir the same call once more. Uploads are followed in SpecPut, the
\* directory and move operations in SpecFs.
FsInit ==
    /\ ents \in InitialRemotes /\ nextId = Cardinality(ents) + 1
    /\ lastOp = IdleOp
    /\ upCfg = IdleCfg /\ pc = "idle" /\ i = 0 /\ j = 0 /\ inPos = 0
    /\ tickets = 0 /\ wgCount = 0 /\ hasFailures = FALSE /\ parts = <<>>
    /\ workers = <<>> /\ obsParts = <<>> /\ obsObject = <<>>
    /\ outOfOrder = FALSE /\ rx = IdleRx /\ rxParts = <<>>
    /\ fetch = IdleCall /\ look = IdleCall /\ ctxDone = FALSE

\* the configurations NewFs is followed under: without credentials no login
\* request is made, so one answer stands for all
Setups ==
    {s \in [conc : Concurrencies, creds : BOOLEAN, answer : LoginAnswers] :
        ~s.creds => (s.answer.status = 1 /\ s.answer.token # "")}

FsPut ==
    /\ Fresh
    /\ \E remote \in Paths, size \in Sizes, s \in Setups,
          known \in BOOLEAN, plan \in UploadPlans :
           LET Returned(conc, r) ==
                   Done("Put", remote, <<>>, size, conc, r,
                        [itemId |-> r.obj.id, size |-> r.size])
               Built(f) ==
                   Returned(f.MultipartTxConcurrency,
                            Put(f, remote, size, f.MultipartTxConcurrency, known))
           IN  Built(NewFs(NewCtx(ents, nextId, plan), s.conc, s.creds, s.answer))

FsMkdir ==
    \E dir \in Paths, plan \in Plans :
        /\ \/ Fresh
           \/ lastOp.op = "Mkdir" /\ lastOp.rep = 1 /\ lastOp.src = dir
        /\ Done("Mkdir", dir, <<>>, 0, 0,
                Mkdir(NewCtx(ents, nextId, plan), dir), 0)

FsRmdir ==
    /\ Fresh
    /\ \E dir \in Paths, plan \in Plans :
           Done("Rmdir", dir, <<>>, 0, 0,
                Rmdir(NewCtx(ents, nextId, plan), dir), 0)

FsMove ==
    /\ Fresh
    /\ \E src \in {q \in Paths : IsFileAt(ents, q)}, remote \in Paths,
          plan \in Plans :
           LET r == Move(NewCtx(ents, nextId, plan), Handle(ents, src), remote)
           IN  Done("Move", src, remote, 0, 0, r, r.obj.id)

FsDirMove ==
    /\ Fresh
    /\ \E srcRemote \in Paths, dstRemote \in Paths, plan \in Plans :
           LET r == DirMove(NewCtx(ents, nextId, plan), srcRemote, dstRemote)
           IN  Done("DirMove", srcRemote, dstRemote, 0, 0, r, r.obj.id)

FsNext == FsMkdir \/ FsRmdir \/ FsMove \/ FsDirMove

\* Remove on the handle of a file of the remote
FsRemove ==
    /\ Fresh
    /\ \E src \in {q \in Paths : IsFileAt(ents, q)}, plan \in Plans :
           LET Removed(r) == Done("Remove", src, <<>>, 0, 0, r, r.confirm)
           IN  Removed(Remove(NewCtx(ents, nextId, plan), src,
                              Handle(ents, src).itemId))

SpecRemove == FsInit /\ [][FsRemove]_vars

LookupPlans == Plans \cup {[NoFaults EXCEPT !.foreign = TRUE]}

\* the lookup of a child by name under a parent ID
FsGetObject ==
    /\ Fresh
    /\ \E name \in Names, pid \in 0..MaxId, plan \in LookupPlans :
           LET Looked(r) == Done("getObject", [pid |-> pid, name |-> name],
                                 <<>>, 0, 0, r, r.obj)
           IN  Looked(getObject(NewCtx(ents, nextId, plan), name, pid))

\* the resolution of a directory path to its ID
FsGetIdByDir ==
    /\ Fresh
    /\ \E dir \in Paths, plan \in LookupPlans :
           LET Resolved(r) == Done("getIdByDir", dir, <<>>, 0, 0, r, r.pid)
           IN  Resolved(getIdByDir(NewCtx(ents, nextId, plan), dir))

LookupNext == FsGetObject \/ FsGetIdByDir

SpecLookup == FsInit /\ [][LookupNext]_vars

SpecFs == FsInit /\ [][FsNext]_vars

PutInit == FsInit

PutNext == FsPut

SpecPut == PutInit /\ [][PutNext]_vars

(***************************************************************************)
(* Claims on the backend operations                                        *)
(***************************************************************************)

\* the remote as a later call finds it, every request answered
Now == NewCtx(ents, nextId, NoFaults)
Sent(api) == \E k \in DOMAIN lastOp.log : lastOp.log[k].api = api
Handshakes == {"get_upload_url", "get_file_upload_session"}

\* C4: Put (Update) with declared size 0 returns ErrorCantUploadEmptyFiles
\* and sends no mutating request and no handshake, whatever the multipart
\* concurrency and whatever is at the destination; the remote is unchanged.
C4_EmptyUploadRejected ==
    (lastOp.op = "Put" /\ lastOp.size = 0) =>
        /\ lastOp.err = "ErrorCantUploadEmptyFiles"
        /\ \A k \in DOMAIN lastOp.log :
               lastOp.log[k].api \notin Mutating \cup Handshakes
        /\ ents = lastOp.pre

C4_Witness ==
    /\ lastOp.op = "Put" /\ lastOp.size = 0 /\ lastOp.conc > 0
    /\ IsFileAt(lastOp.pre, lastOp.src)
    /\ lastOp.err = "ErrorCantUploadEmptyFiles"

HasEntries(es, q) == IsDirAt(es, q) /\ Children(es, At(es, q).id) # {}

\* C5: Rmdir on a directory that holds at least one entry returns
\* ErrorDirectoryNotEmpty and sends no folder_del.
C5_NonEmptyRmdirRefused ==
    (lastOp.op = "Rmdir" /\ HasEntries(lastOp.pre, lastOp.src)) =>
        /\ lastOp.err = "ErrorDirectoryNotEmpty"
        /\ ~Sent("folder_del")

AllDirs(es, q) == \A n \in 1..Len(q) : IsDirAt(es, SubSeq(q, 1, n))

\* C6: when the remote answers every request, Mkdir(path) on a path whose
\* components all exist as directories returns success and leaves the remote
\* as it was (each folder_create is answered 1501), and so does a second
\* Mkdir(path) that follows a successful first one.
C6_MkdirIdempotent ==
    (/\ lastOp.op = "Mkdir" /\ lastOp.faults = 0
     /\ \/ AllDirs(lastOp.pre, lastOp.src)
        \/ lastOp.rep = 2 /\ lastOp.prev = "nil") =>
        /\ lastOp.err = "nil"
        /\ ents = lastOp.pre
        /\ IsDirAt(ents, lastOp.src)

C6_Witness ==
    /\ lastOp.op = "Mkdir" /\ lastOp.rep = 2 /\ lastOp.prev = "nil"
    /\ lastOp.faults = 0 /\ lastOp.err = "nil"
    /\ Len(lastOp.src) = MaxDepth
    /\ Len(lastOp.log) > 0
    /\ \A k \in DOMAIN lastOp.log :
           lastOp.log[k].api = "folder_create" =>
               NameTaken(lastOp.pre, lastOp.log[k].pid, lastOp.log[k].name)

\* C7: after Mkdir(path) returns success, List of the enclosing directory has
\* an entry for path that is a directory, and NewObject(path) returns
\* ErrorIsDir.
C7_MkdirVisible ==
    (lastOp.op = "Mkdir" /\ lastOp.err = "nil") =>
        /\ List(Now, Front(lastOp.src)).err = "nil"
        /\ \E k \in DOMAIN List(Now, Front(lastOp.src)).files :
               /\ List(Now, Front(lastOp.src)).files[k].remote = lastOp.src
               /\ List(Now, Front(lastOp.src)).files[k].isDir
        /\ NewObject(Now, lastOp.src).err = "ErrorIsDir"

C7_Witness ==
    /\ lastOp.op = "Mkdir" /\ lastOp.err = "nil" /\ lastOp.rep = 1
    /\ lastOp.faults = 0
    /\ Len(lastOp.src) = MaxDepth
    /\ At(lastOp.pre, SubSeq(lastOp.src, 1, 1)) = NoEntity
    /\ NewObject(Now, lastOp.src).err = "ErrorIsDir"

\* C8: after Move(a, b) of a file to another path returns success (every
\* request of the call answered), NewObject(a) returns ErrorObjectNotFound
\* and NewObject(b) returns the file that was at a (same item-ID), which is
\* also the handle Move returned.
C8_MovedFileAtDestination ==
    (/\ lastOp.op = "Move" /\ lastOp.err = "nil" /\ lastOp.faults = 0
     /\ lastOp.src # lastOp.dst) =>
        /\ NewObject(Now, lastOp.src).err = "ErrorObjectNotFound"
        /\ NewObject(Now, lastOp.dst).err = "nil"
        /\ NewObject(Now, lastOp.dst).obj.id = At(lastOp.pre, lastOp.src).id
        /\ lastOp.obj = At(lastOp.pre, lastOp.src).id

\* C9: whenever the destination path resolves to a directory, DirMove (of
\* another path that is a directory) returns ErrorDirExists or, when it could not
\* look the source up, ErrorCantDirMove, and has sent no folder_edit,
\* folder_move or folder_create.
C9_DirExistsBeforeMutation ==
    (/\ lastOp.op = "DirMove" /\ lastOp.src # lastOp.dst
     /\ IsDirAt(lastOp.pre, lastOp.src)
     /\ IsDirAt(lastOp.pre, lastOp.dst)) =>
        /\ lastOp.err \in {"ErrorDirExists", "ErrorCantDirMove"}
        /\ Mutations(lastOp.log) = <<>>

RECURSIVE PathBelow(_, _, _)
\* the names from the folder top (excluded) down to the entity e
PathBelow(es, e, top) ==
    IF e.pid = top THEN <<e.name>>
    ELSE Append(PathBelow(es, Entity(es, e.pid), top), e.name)

MoveKind(log) ==
    [k \in DOMAIN Mutations(log) |-> Mutations(log)[k].api]

\* C10: after a successful DirMove(a, b) of a directory with children, every
\* entity that was reachable as a/x is reachable as b/x with the same ID, and
\* nothing is reachable at a any more; in the rename, in the move and in the
\* rename-move-rename case.
C10_ChildrenRebased ==
    (/\ lastOp.op = "DirMove" /\ lastOp.err = "nil"
     /\ HasEntries(lastOp.pre, lastOp.src)) =>
        /\ \A d \in Subtree(lastOp.pre, At(lastOp.pre, lastOp.src).id) :
               At(ents, lastOp.dst \o
                        PathBelow(lastOp.pre, d, At(lastOp.pre, lastOp.src).id))
                   = d
        /\ At(ents, lastOp.dst).id = At(lastOp.pre, lastOp.src).id
        /\ At(ents, lastOp.src) = NoEntity

C10_Witness ==
    /\ lastOp.op = "DirMove" /\ lastOp.err = "nil" /\ lastOp.faults = 0
    /\ HasEntries(lastOp.pre, lastOp.src)
    /\ MoveKind(lastOp.log) = <<"folder_edit", "folder_move", "folder_edit">>
    /\ \E d \in Subtree(lastOp.pre, At(lastOp.pre, lastOp.src).id) :
           At(ents, lastOp.dst \o
                    PathBelow(lastOp.pre, d, At(lastOp.pre, lastOp.src).id)).id
               = d.id

C10_WitnessRename ==
    /\ lastOp.op = "DirMove" /\ lastOp.err = "nil" /\ lastOp.faults = 0
    /\ HasEntries(lastOp.pre, lastOp.src)
    /\ MoveKind(lastOp.log) = <<"folder_edit">>

C10_WitnessMove ==
    /\ lastOp.op = "DirMove" /\ lastOp.err = "nil" /\ lastOp.faults = 0
    /\ HasEntries(lastOp.pre, lastOp.src)
    /\ MoveKind(lastOp.log) = <<"folder_create", "folder_move">>


Binds == {"create_item", "folder_upload_file"}

\* the file the bind call of the last Put created, NoEntity when it created
\* none
Bound ==
    IF \E e \in ents : e.type = "file" /\ e.id > Cardinality(lastOp.pre)
    THEN CHOOSE e \in ents : e.type = "file" /\ e.id > Cardinality(lastOp.pre)
    ELSE NoEntity

\* every search that followed the answered bind call failed or did not show
\* the new entity
NeverVisible ==
    \/ lastOp.plan.lag
    \/ \E k \in DOMAIN lastOp.log :
          /\ lastOp.log[k].api \in Binds /\ k \notin lastOp.bad
          /\ k < Len(lastOp.log)
          /\ \A n \in (k + 1)..Len(lastOp.log) : n \in lastOp.bad

\* C12: when the bind call of a Put was answered with status 1 and an
\* item-ID, and the searches of the reconciliation never show the new
\* entity, Put returns success with the item-ID of the bind response and the
\* declared size.
C12_FallbackToBindResponse ==
    (/\ lastOp.op = "Put" /\ Bound # NoEntity
     /\ ~lastOp.plan.noItemId /\ NeverVisible) =>
        /\ lastOp.err = "nil"
        /\ lastOp.obj.itemId = Bound.id
        /\ lastOp.obj.size = lastOp.size

\* a multipart upload on a remote that does not show the new entity
C12_Witness ==
    /\ lastOp.op = "Put" /\ lastOp.plan.lag /\ ~lastOp.plan.noItemId
    /\ Sent("create_item")
    /\ Bound # NoEntity /\ At(ents, lastOp.src) = Bound
    /\ lastOp.err = "nil" /\ lastOp.obj.itemId = Bound.id
    /\ lastOp.obj.size = minPartSize


\* the lookup that opens the upload was answered: no request failed before
\* the first request that is not a search
LookupAnswered ==
    \A k \in DOMAIN lastOp.log :
        (\A n \in 1..k : lastOp.log[n].api = "file_search") => k \notin lastOp.bad

\* C15: a Put of a non-empty file onto the path of an existing file sends
\* file_del for that file before the upload handshake, and sends the
\* handshake whether or not the deletion succeeded; when every request is
\* answered the upload succeeds.
C15_ReplaceThenUpload ==
    (/\ lastOp.op = "Put" /\ lastOp.size > 0
     /\ IsFileAt(lastOp.pre, lastOp.src) /\ LookupAnswered) =>
        /\ \E d, h \in DOMAIN lastOp.log :
              /\ d < h
              /\ lastOp.log[d].api = "file_del"
              /\ lastOp.log[d].id = At(lastOp.pre, lastOp.src).id
              /\ lastOp.log[h].api \in Handshakes
              /\ \A n \in 1..d : lastOp.log[n].api \notin Handshakes
        /\ (lastOp.bad = {} /\ ~lastOp.plan.lag /\ ~lastOp.plan.refuse) =>
              /\ lastOp.err = "nil"
              /\ IsFileAt(ents, lastOp.src)
              /\ At(ents, lastOp.src).id # At(lastOp.pre, lastOp.src).id

\* the deletion of the existing file fails and the handshake is sent all the
\* same, on either path
C15_Witness ==
    /\ lastOp.op = "Put" /\ IsFileAt(lastOp.pre, lastOp.src)
    /\ \E d \in lastOp.bad :
          /\ lastOp.log[d].api = "file_del"
          /\ d < Len(lastOp.log)
          /\ lastOp.log[d + 1].api = "get_file_upload_session"
          /\ (d + 1) \notin lastOp.bad

\* C16: an upload goes through get_file_upload_session (the multipart path)
\* if and only if the construction obtained an account token, the configured
\* concurrency is positive and the declared size is at least minPartSize;
\* any other upload of a non-empty file goes through get_upload_url (the
\* single-PUT path), and neither path sends the handshake of the other.
C16_MultipartIffTokenAndSize ==
    lastOp.op = "Put" =>
        /\ Sent("get_file_upload_session") <=>
               (/\ lastOp.accToken # "" /\ lastOp.configured > 0
                /\ lastOp.size >= minPartSize)
        /\ Sent("get_upload_url") <=>
               (/\ lastOp.size > 0
                /\ ~(/\ lastOp.accToken # "" /\ lastOp.configured > 0
                     /\ lastOp.size >= minPartSize))

\* a large file with a positive configured concurrency uploaded by single
\* PUT, the login having failed
C16_Witness ==
    /\ lastOp.op = "Put" /\ lastOp.configured > 0 /\ lastOp.accToken = ""
    /\ lastOp.size >= minPartSize
    /\ Sent("get_upload_url") /\ Sent("folder_upload_file")
    /\ lastOp.err = "nil"

\* a large file uploaded in parts, the login having succeeded
C16_WitnessMultipart ==
    /\ lastOp.op = "Put" /\ lastOp.configured > 0 /\ lastOp.accToken # ""
    /\ lastOp.size >= minPartSize
    /\ Sent("get_file_upload_session") /\ Sent("create_item")
    /\ lastOp.err = "nil"

DataCalls == {"obs_put", "obs_upload_parts"}

Calls(apis) == {k \in DOMAIN lastOp.log : lastOp.log[k].api \in apis}

\* C21: the bind call follows a handshake answered 600, or a handshake
\* answered 1 and a data transfer that succeeded; after an answer of 600 no
\* data transfer is made; a handshake with another answer, a failed transfer
\* and a bind answered with another status than 1 each end the upload with an
\* error, no request following.
C21_UploadStepsInOrder ==
    lastOp.op = "Put" =>
        /\ \A b \in Calls(Binds) : \E h \in Calls(Handshakes) :
              /\ h < b
              /\ \/ lastOp.answers[h] = 600
                 \/ /\ lastOp.answers[h] = 1
                    /\ \E d \in Calls(DataCalls) :
                          h < d /\ d < b /\ lastOp.answers[d] = 1
        /\ \A h \in Calls(Handshakes) :
              /\ lastOp.answers[h] = 600 => Calls(DataCalls) = {}
              /\ lastOp.answers[h] \notin {1, 600} =>
                    lastOp.err # "nil" /\ h = Len(lastOp.log)
        /\ \A d \in Calls(DataCalls) :
              lastOp.answers[d] # 1 => lastOp.err # "nil" /\ d = Len(lastOp.log)
        /\ \A b \in Calls(Binds) :
              lastOp.answers[b] # 1 => lastOp.err # "nil" /\ b = Len(lastOp.log)

\* the remote holds the content already: the bind follows the handshake
\* with no transfer between them
C21_Witness ==
    /\ lastOp.op = "Put" /\ lastOp.err = "nil"
    /\ \E h \in Calls(Handshakes) :
          lastOp.answers[h] = 600 /\ (h + 1) \in Calls(Binds)

\* the handshake is refused and the upload ends there
C21_WitnessRefused ==
    /\ lastOp.op = "Put" /\ lastOp.err # "nil"
    /\ Len(lastOp.log) \in Calls(Handshakes)
    /\ lastOp.answers[Len(lastOp.log)] = 500

\* the bind is refused after a transfer that succeeded
C21_WitnessBindRefused ==
    /\ lastOp.op = "Put" /\ lastOp.err # "nil"
    /\ Calls(DataCalls) # {}
    /\ Len(lastOp.log) \in Calls(Binds)
    /\ lastOp.answers[Len(lastOp.log)] = 1501

\* C24: a Put onto the path of an existing file that returns an error, other
\* than the refusal of an empty file, leaves that file on the remote.
C24_FailedPutKeepsObject ==
    (/\ lastOp.op = "Put" /\ IsFileAt(lastOp.pre, lastOp.src)
     /\ lastOp.err \notin {"nil", "ErrorCantUploadEmptyFiles"}) =>
        At(lastOp.pre, lastOp.src) \in ents

\* C25: a Put that returns success returns a handle with an item ID, on
\* either path; when neither the search nor the answer of the bind call
\* names the item, the Put returns an error.
C25_SuccessHasItemId ==
    lastOp.op = "Put" =>
        /\ lastOp.err = "nil" => lastOp.obj.itemId # 0
        /\ (/\ lastOp.plan.lag /\ lastOp.plan.noItemId
            /\ \E b \in Calls(Binds) : lastOp.answers[b] = 1) => lastOp.err # "nil"

\* C26: Rmdir sends folder_del only when every request before it was
\* answered and the directory held no entry; when a request of the listing
\* fails, Rmdir returns an error and the remote is as it was.
C26_RmdirAfterListing ==
    lastOp.op = "Rmdir" =>
        /\ \A d \in Calls({"folder_del"}) :
              /\ \A k \in 1..(d - 1) : k \notin lastOp.bad
              /\ ~HasEntries(lastOp.pre, lastOp.src)
        /\ 1 \in lastOp.bad => lastOp.err # "nil" /\ ents = lastOp.pre

\* a move that keeps the leaf name, into a parent that does not exist, every
\* request being answered
MoveIntoMissingParent ==
    /\ lastOp.op \in {"Move", "DirMove"} /\ lastOp.faults = 0
    /\ Len(lastOp.dst) = 2
    /\ Last(lastOp.src) = Last(lastOp.dst)
    /\ Front(lastOp.src) # Front(lastOp.dst)
    /\ At(lastOp.pre, Front(lastOp.dst)) = NoEntity
    /\ IF lastOp.op = "Move" THEN IsFileAt(lastOp.pre, lastOp.src)
       ELSE IsDirAt(lastOp.pre, lastOp.src)

\* C28: such a move, of a file and of a directory, creates the parent and
\* then sends exactly one move call and no rename; the entity ends at the
\* destination.
C28_MoveCreatesParent ==
    MoveIntoMissingParent =>
        /\ lastOp.err = "nil"
        /\ Calls({"file_rename", "folder_edit"}) = {}
        /\ Cardinality(Calls({"file_move", "folder_move"})) = 1
        /\ \E c \in Calls({"folder_create"}) :
              \A v \in Calls({"file_move", "folder_move"}) : c < v
        /\ IsDirAt(ents, Front(lastOp.dst))
        /\ At(ents, lastOp.dst).id = At(lastOp.pre, lastOp.src).id

\* a file alone in its directory is moved into another, empty directory
\* under another leaf name, every request being answered
MoveWithRename ==
    /\ lastOp.op = "Move" /\ lastOp.faults = 0
    /\ Len(lastOp.src) = 2 /\ Len(lastOp.dst) = 2
    /\ IsFileAt(lastOp.pre, lastOp.src)
    /\ Front(lastOp.src) # Front(lastOp.dst)
    /\ Last(lastOp.src) # Last(lastOp.dst)
    /\ IsDirAt(lastOp.pre, Front(lastOp.dst))
    /\ Children(lastOp.pre, At(lastOp.pre, Front(lastOp.dst)).id) = {}
    /\ Children(lastOp.pre, At(lastOp.pre, Front(lastOp.src)).id) =
           {At(lastOp.pre, lastOp.src)}

MovedAlone ==
    /\ lastOp.err = "nil"
    /\ IsFileAt(ents, lastOp.dst)
    /\ At(ents, lastOp.dst).id = At(lastOp.pre, lastOp.src).id
    /\ At(ents, lastOp.src) = NoEntity
    /\ Children(ents, At(ents, Front(lastOp.dst)).id) = {At(ents, lastOp.dst)}

C34_OnlyRequestedParent ==
    /\ lastOp.op = "getObject" =>
          IF lastOp.err = "nil"
          THEN /\ lastOp.obj \in lastOp.pre
               /\ lastOp.obj.pid = lastOp.src.pid
               /\ lastOp.obj.name = lastOp.src.name
          ELSE lastOp.obj = NoEntity
    /\ (lastOp.op = "getObject" /\ lastOp.bad = {}) =>
          (lastOp.err = "ErrorObjectNotFound" <=>
               ~NameTaken(lastOp.pre, lastOp.src.pid, lastOp.src.name))
    /\ lastOp.op = "getIdByDir" =>
          IF lastOp.err = "nil"
          THEN IsDirAt(lastOp.pre, lastOp.src)
               /\ lastOp.obj = At(lastOp.pre, lastOp.src).id
          ELSE lastOp.obj = 0
    /\ (lastOp.op = "getIdByDir" /\ lastOp.bad = {}) =>
          (lastOp.err = "ErrorDirNotFound" <=> ~IsDirAt(lastOp.pre, lastOp.src))

\* C33: a Remove that returns success had its file_del answered with status
\* 1 and saw a lookup of the path made after the delete return not-found;
\* the file is then no longer on the remote.
C33_RemoveConfirmed ==
    (lastOp.op = "Remove" /\ lastOp.err = "nil") =>
        /\ \E d \in Calls({"file_del"}) : lastOp.answers[d] = 1
        /\ lastOp.obj = "ErrorObjectNotFound"
        /\ At(lastOp.pre, lastOp.src) \notin ents

\* the calls that rename, move or create an entity
NamingCalls == {"file_rename", "file_move", "folder_edit", "folder_move",
                "folder_create"}

\* C32: a file_rename, file_move, folder_edit, folder_move or folder_create
\* answered with status 1501 is taken as successful: the operation that
\* issued it does not end with an error at that call.
C32_AlreadyExistsIsSuccess ==
    lastOp.op \in {"Mkdir", "Move", "DirMove"} =>
        \A k \in Calls(NamingCalls) :
            lastOp.answers[k] = 1501 =>
                ~(k = Len(lastOp.log) /\ lastOp.err # "nil")

(***************************************************************************)
(* Claims on the failures of a parallel Open                               *)
(***************************************************************************)

\* C22: a parallel Open that returns a reader has for every part the body of
\* a successful ranged response; an HTTP error status as the last answer of
\* a part makes Open fail.
C22_CompositeOfSuccessfulParts ==
    (rx.pc = "returned" /\ rx.path = "parallel" /\ ~rx.err) =>
        \A k \in DOMAIN rx.readers : rx.readers[k].kind = "bytes"

\* C23: when a worker of a parallel Open returns without a reader, Open
\* returns only when every worker has returned, it returns an error and no
\* reader, and every reader that a worker did open is closed.
C23_FailedOpenClosesParts ==
    (/\ rx.pc = "returned" /\ rx.path = "parallel"
     /\ \E k \in DOMAIN rxParts : rxParts[k].reader = Nil) =>
        /\ \A k \in DOMAIN rxParts : rxParts[k].st = "done"
        /\ rx.err /\ rx.readers = <<>>
        /\ \A k \in DOMAIN rxParts : rxParts[k].reader # Nil => rxParts[k].closed

\* a parallel Open of three parts has failed: one worker got no reader, the
\* two others did, and theirs are closed
C23_Witness ==
    /\ rx.pc = "returned" /\ rx.path = "parallel" /\ rx.err
    /\ Len(rxParts) = 3
    /\ Cardinality({k \in DOMAIN rxParts : rxParts[k].reader = Nil}) = 1
    /\ \E k \in DOMAIN rxParts :
          rxParts[k].reader.kind = "bytes" /\ rxParts[k].closed

(***************************************************************************)
(* Claims on the scheduling of the part uploads                            *)
(***************************************************************************)

AnyPartFailed == \E n \in DOMAIN parts : parts[n] = FailedPart

\* C17: once a part is marked failed, no step reads from the input or starts
\* a worker.
C17_NoPartAfterFailure ==
    [][AnyPartFailed =>
          /\ inPos' = inPos
          /\ \A n \in DOMAIN workers :
                workers[n].st = "none" => workers'[n].st = "none"]_vars

Started(n) == workers[n].st # "none"
Finished(n) == workers[n].st = "done"

\* C18: when a part is marked failed, the transfer returns its error only
\* when every worker that was started has finished, and it never reaches
\* CompleteMultipartUpload: no object is assembled.
C18_DrainBeforeError ==
    AnyPartFailed =>
        /\ pc \notin {"complete", "done"}
        /\ obsObject = <<>>
        /\ pc = "error" => \A n \in DOMAIN workers : Started(n) => Finished(n)

\* the transfer has returned its error after a failed part; two workers had
\* been started and have finished, one of them with success
C18_Witness ==
    /\ pc = "error" /\ AnyPartFailed
    /\ Cardinality({n \in DOMAIN workers : Finished(n)}) >= 2
    /\ \E n \in DOMAIN parts : parts[n] # FailedPart /\ parts[n] # NoPart

\* the least number of parts of size partSize that hold inSize bytes
CeilDiv(inSize, partSize) ==
    CHOOSE n \in 0..inSize : n * partSize >= inSize /\ (n - 1) * partSize < inSize

\* C19: when CompleteMultipartUpload is called, the list of parts has
\* ceil(S / part size) entries, entry k (counted from 1) holds part number k
\* and the ETag the object store returned for part k, and the worker of every
\* part has finished; an entry is written once, by the worker of its part.
C19_PartsListInOrder ==
    /\ [](pc = "complete" =>
            /\ Len(parts) = CeilDiv(upCfg.inSize, upCfg.partSize)
            /\ \A k \in DOMAIN parts :
                  /\ parts[k].PartNumber = k
                  /\ parts[k].ETag = obsParts[k]
                  /\ workers[k].st = "done" /\ ~workers[k].err)
    /\ [][\A k \in DOMAIN parts :
             (parts'[k] # parts[k] /\ parts'[k] # FailedPart) =>
                 /\ parts[k] = NoPart
                 /\ workers[k].st = "result" /\ workers'[k].st = "release"]_vars

\* Complete is called with a full and a short part, whose workers finished
\* out of order, one of them after a retry
C19_Witness ==
    /\ pc = "complete" /\ outOfOrder
    /\ upCfg.inSize = 3 /\ upCfg.partSize = 2 /\ Len(parts) = 2
    /\ \E n \in DOMAIN workers : workers[n].tries > 1

\* the parts read into memory whose worker has not finished
InMemory ==
    {n \in DOMAIN workers : workers[n].st \in {"upload", "result", "release"}}

RECURSIVE BufferedBytes(_)
\* the bytes of the parts in memory among the first k
BufferedBytes(k) ==
    IF k = 0 THEN 0
    ELSE (IF k \in InMemory THEN Len(workers[k].body) ELSE 0) + BufferedBytes(k - 1)

\* max(1, min(C, floor(memory cap / part size)))
EffectiveConcurrency ==
    LET fit == upCfg.maxBufferSize \div upCfg.partSize
        least == IF upCfg.concurrency < fit THEN upCfg.concurrency ELSE fit
    IN  IF least > 1 THEN least ELSE 1

\* C20: at every moment the parts that are in memory with an unfinished
\* worker number at most max(1, min(C, floor(memory cap / part size))), and
\* their bytes at most the part size times that number.
C20_MemoryBounded ==
    /\ Cardinality(InMemory) <= EffectiveConcurrency
    /\ BufferedBytes(Len(workers)) <= upCfg.partSize * EffectiveConcurrency

\* the memory cap admits fewer parts than the configured concurrency: one
\* part is in memory and the scheduler waits for its ticket with the next
C20_Witness ==
    /\ upCfg.concurrency = 2 /\ EffectiveConcurrency = 1
    /\ upCfg.partSize <= upCfg.maxBufferSize
    /\ pc = "ticket" /\ tickets = 1 /\ Cardinality(InMemory) = 1
    /\ BufferedBytes(Len(workers)) = upCfg.partSize

\* two parts are in memory at once, as many as the concurrency allows
C20_WitnessFull ==
    /\ EffectiveConcurrency = 2 /\ Cardinality(InMemory) = 2
    /\ BufferedBytes(Len(workers)) = 2 * upCfg.partSize

\* C37 as stated: part size times the effective worker count, and times the
\* tickets held, is at most the memory cap, for every configuration.
C37_WorkersFitCap ==
    pc # "idle" =>
        /\ upCfg.partSize * CalibratedConcurrency(upCfg) <= upCfg.maxBufferSize
        /\ upCfg.partSize * tickets <= upCfg.maxBufferSize

\* C37: the effective worker count is at least 1 and at most the configured
\* concurrency; when the memory cap holds at least one part, part size times
\* the worker count (and times the tickets held) is at most the cap; when
\* the cap is smaller than one part, there is one worker.
C37_WorkersFitCapOrOne ==
    pc # "idle" =>
        /\ CalibratedConcurrency(upCfg) \in 1..upCfg.concurrency
        /\ tickets <= CalibratedConcurrency(upCfg)
        /\ upCfg.partSize <= upCfg.maxBufferSize =>
               /\ upCfg.partSize * CalibratedConcurrency(upCfg) <= upCfg.maxBufferSize
               /\ upCfg.partSize * tickets <= upCfg.maxBufferSize
        /\ upCfg.partSize > upCfg.maxBufferSize =>
               CalibratedConcurrency(upCfg) = 1

\* the cap is smaller than one part and one part is in memory
C37_Witness ==
    /\ upCfg.partSize > upCfg.maxBufferSize /\ upCfg.concurrency = 2
    /\ tickets = 1 /\ Cardinality(InMemory) = 1

\* the cap holds one part of two bytes and not two: one ticket
C37_WitnessReduced ==
    /\ upCfg.partSize = 2 /\ upCfg.maxBufferSize = 3 /\ upCfg.concurrency = 2
    /\ tickets = 1 /\ pc = "ticket"

\* C38: when the number of parts, ceil(S / part size), exceeds 10000, the
\* part transfer ends with an error at the check of the count: the upload is
\* never initiated, no part is read and none is uploaded.
C38_TooManyPartsFailsFirst ==
    (pc # "idle" /\ CeilDiv(upCfg.inSize, upCfg.partSize) > 10000) =>
        /\ pc \in {"start", "error"}
        /\ parts = <<>> /\ workers = <<>> /\ obsParts = <<>>
        /\ inPos = 0 /\ tickets = 0 /\ obsObject = <<>>

\* an input of 10000 parts and one byte more has been refused
C38_Witness ==
    /\ pc = "error" /\ upCfg.partSize = 2 /\ upCfg.inSize = 20001
    /\ parts = <<>>

\* the workers that hold a ticket
HoldingTicket == {n \in DOMAIN workers : workers[n].st \in {"upload", "result", "release"}}

\* C39: every ticket taken is held by one unfinished worker and given back
\* when that worker ends, so the tickets held and the wait group both count
\* the unfinished workers and never exceed the channel's capacity; with
\* every attempt of a part upload returning, the part transfer ends, with
\* no ticket held.
C39_TransferTerminates ==
    /\ [](/\ tickets = Cardinality(HoldingTicket)
          /\ wgCount = tickets
          /\ tickets <= CalibratedConcurrency(upCfg)
          /\ pc \in {"done", "error"} => tickets = 0)
    /\ <>(pc \in {"done", "error"})

\* the scheduler waits for a ticket while the channel is full and a worker
\* is about to give one back
C39_Witness ==
    /\ pc = "ticket" /\ tickets = CalibratedConcurrency(upCfg)
    /\ \E n \in HoldingTicket : workers[n].st = "release"

\* a part could not be read: its ticket was given back and the transfer
\* ended with an error after the workers before it
C39_WitnessReadFails ==
    /\ pc = "error" /\ tickets = 0
    /\ \E n \in DOMAIN workers : workers[n].st = "none" /\ parts[n] = FailedPart
    /\ \E n \in DOMAIN workers : workers[n].st = "done"

\* C30: once the context is cancelled, no step reads a part from the input
\* or starts a worker.
C30_NoPartAfterCancel ==
    [][ctxDone =>
          /\ inPos' = inPos
          /\ \A n \in DOMAIN workers :
                workers[n].st = "none" => workers'[n].st = "none"]_vars

(***************************************************************************)
(* The name-filtered lookup (the backend built on lib/dircache)            *)
(*                                                                         *)
(* A name is the sequence of its characters. file_search with a name       *)
(* ignores the parent and answers every entity whose name contains the     *)
(* query; with an empty name it answers the entries of the parent.         *)
(***************************************************************************)

\* bounds of the lookup model; PerPage stands for maxEntitiesPerPage (1024)
MaxNameLen == 2
MaxEntities == 3
PerPage == 2

Chars == {"a", " ", "%"}
SearchNames == UNION {[1..n -> Chars] : n \in 1..MaxNameLen}
Parents == {0, 1}

\* the character class of searchOK, ^[a-zA-Z0-9_ .]+$
searchOKChars ==
    {"a", "b", "c", "d", "e", "f", "g", "h", "i", "j", "k", "l", "m", "n", "o",
     "p", "q", "r", "s", "t", "u", "v", "w", "x", "y", "z",
     "A", "B", "C", "D", "E", "F", "G", "H", "I", "J", "K", "L", "M", "N", "O",
     "P", "Q", "R", "S", "T", "U", "V", "W", "X", "Y", "Z",
     "0", "1", "2", "3", "4", "5", "6", "7", "8", "9", "_", " ", "."}
searchOK(s) == Len(s) > 0 /\ \A k \in DOMAIN s : s[k] \in searchOKChars

RECURSIVE TrimLeft(_)
TrimLeft(s) ==
    IF s # <<>> /\ Head(s) = " " THEN TrimLeft(Tail(s)) ELSE s
RECURSIVE TrimRight(_)
TrimRight(s) ==
    IF s # <<>> /\ s[Len(s)] = " " THEN TrimRight(SubSeq(s, 1, Len(s) - 1)) ELSE s
\* strings.TrimSpace
TrimSpace(s) == TrimRight(TrimLeft(s))

Contains(s, q) ==
    \E k \in 0..(Len(s) - Len(q)) : SubSeq(s, k + 1, k + Len(q)) = q

\* one page of the remote's answer to file_search(name, pid, pageNo)
FileSearch(es, name, pid, pageNo) ==
    LET PageOf(all) ==
            SubSeq(all, (pageNo - 1) * PerPage + 1, Min(pageNo * PerPage, Len(all)))
    IN  IF name = <<>>
        THEN PageOf(SelectSeq(es, LAMBDA e : e.pid = pid))
        ELSE PageOf(SelectSeq(es, LAMBDA e : Contains(e.name, name)))

NoMatch == [id |-> 0, pid |-> 0, name |-> <<>>]

RECURSIVE FirstNamedAnyParent(_, _, _)
\* the comparison of the entries without the parent
FirstNamedAnyParent(list, pid, name) ==
    IF list = <<>> THEN NoMatch
    ELSE IF Head(list).name = name THEN Head(list)
    ELSE FirstNamedAnyParent(Tail(list), pid, name)

RECURSIVE FirstNamed(_, _, _)
\* the first entry of a page that is the entity looked for
FirstNamed(list, pid, name) ==
    IF list = <<>> THEN NoMatch
    ELSE IF Head(list).pid = pid /\ Head(list).name = name THEN Head(list)
    ELSE FirstNamed(Tail(list), pid, name)

Looked(err, entity, sent) == [err |-> err, entity |-> entity, sent |-> sent]

RECURSIVE SearchPages(_, _, _, _, _, _)
\* the loop of getObject over the pages
SearchPages(es, query, name, pid, pageNumber, sent) ==
    LET Page(list, hit, asked) ==
            IF hit # NoMatch THEN Looked("nil", hit, asked)
            ELSE IF pageNumber > 100000 THEN Looked("other", NoMatch, asked)
            ELSE IF Len(list) = PerPage
                 THEN SearchPages(es, query, name, pid, pageNumber + 1, asked)
            ELSE Looked("ErrorObjectNotFound", NoMatch, asked)
        Got(list) ==
            Page(list, FirstNamed(list, pid, name),
                 Append(sent, [name |-> query, pid |-> pid, page |-> pageNumber]))
    IN  Got(FileSearch(es, query, pid, pageNumber))

\* getObject of the dircache backend
getObjectByName(es, name, pid) ==
    IF searchOK(TrimSpace(name))
    THEN SearchPages(es, TrimSpace(name), name, pid, 1, <<>>)
    ELSE SearchPages(es, <<>>, name, pid, 1, <<>>)

\* the remotes of the lookup model: the entities in the order the remote
\* lists them, the ID of an entity being its place
SearchRemotes ==
    UNION {{[k \in 1..n |-> [id |-> k, pid |-> f[k].pid, name |-> f[k].name]] :
               f \in [1..n -> [pid : Parents, name : SearchNames]]} :
           n \in 0..MaxEntities}

SearchInit ==
    /\ look \in [pc : {"ready"}, ents : SearchRemotes, name : SearchNames,
                 pid : Parents]
    /\ fetch = IdleCall /\ ctxDone = FALSE
    /\ ents = {} /\ nextId = 1 /\ lastOp = IdleOp
    /\ upCfg = IdleCfg /\ pc = "idle" /\ i = 0 /\ j = 0 /\ inPos = 0
    /\ tickets = 0 /\ wgCount = 0 /\ hasFailures = FALSE /\ parts = <<>>
    /\ workers = <<>> /\ obsParts = <<>> /\ obsObject = <<>>
    /\ outOfOrder = FALSE /\ rx = IdleRx /\ rxParts = <<>>

\* one call of getObject
SearchLookup ==
    /\ look.pc = "ready"
    /\ look' = [pc |-> "done", ents |-> look.ents, name |-> look.name,
                pid |-> look.pid,
                res |-> getObjectByName(look.ents, look.name, look.pid)]
    /\ UNCHANGED <<upVars, rxVars, fsVars, fetch, ctxDone>>

SearchNext == SearchLookup

SpecSearch == SearchInit /\ [][SearchNext]_vars

\* the first entry of the parent that bears the name, as a listing of the
\* whole parent gives it
FullListingFinds(es, name, pid) ==
    IF \E k \in DOMAIN es : es[k].pid = pid /\ es[k].name = name
    THEN es[CHOOSE k \in DOMAIN es :
                /\ es[k].pid = pid /\ es[k].name = name
                /\ \A m \in 1..(k - 1) : ~(es[m].pid = pid /\ es[m].name = name)]
    ELSE NoMatch

\* C13: the lookup of a name under a parent finds what a listing of the whole
\* parent finds (the entity, or nothing), for every name; the requests carry
\* the trimmed name as filter when it consists of characters of
\* [a-zA-Z0-9_ .] only, and an empty filter for any other name.
C13_FilteredLookupAgrees ==
    look.pc = "done" =>
        /\ look.res.entity = FullListingFinds(look.ents, look.name, look.pid)
        /\ look.res.entity =
               SearchPages(look.ents, <<>>, look.name, look.pid, 1, <<>>).entity
        /\ look.res.err =
               SearchPages(look.ents, <<>>, look.name, look.pid, 1, <<>>).err
        /\ look.res.err = IF look.res.entity = NoMatch
                          THEN "ErrorObjectNotFound" ELSE "nil"
        /\ \A k \in DOMAIN look.res.sent :
               look.res.sent[k].name =
                   IF TrimSpace(look.name) # <<>> /\
                      \A n \in DOMAIN TrimSpace(look.name) :
                          TrimSpace(look.name)[n] \in searchOKChars
                   THEN TrimSpace(look.name) ELSE <<>>

\* a filtered lookup that finds its entity on the second page, behind the
\* matches of another parent
C13_Witness ==
    /\ look.pc = "done" /\ look.res.err = "nil"
    /\ Len(look.res.sent) = 2 /\ look.res.sent[1].name # <<>>
    /\ look.name # TrimSpace(look.name)
    /\ \E k \in DOMAIN look.ents :
           look.ents[k].pid # look.pid /\ Contains(look.ents[k].name, TrimSpace(look.name))

\* a name outside the safe characters, found by paging through the parent
C13_WitnessUnsafe ==
    /\ look.pc = "done" /\ look.res.err = "nil"
    /\ "%" \in Range(look.name)
    /\ Len(look.res.sent) = 2 /\ look.res.sent[1].name = <<>>


(***************************************************************************)
(* A control-plane request under the pacer (_FetchWithRetries)             *)
(***************************************************************************)

\* bound: the number of attempts the pacer makes (the low-level retries)
MaxAttempts == 3

HttpCodes == {200, 400, 401, 403, 404, 408, 429, 500, 502, 503, 504, 509}

\* what one attempt of srv.Call ends with: a response with an HTTP status, a
\* transport error that fserrors.ShouldRetry accepts, one it does not, or a
\* cancelled context
Attempts ==
    [kind : {"http"}, code : HttpCodes] \cup
    [kind : {"neterr", "fatal", "cancelled"}, code : {0}]

retryErrorCodes == {400, 401, 408, 429, 500, 502, 503, 504}

shouldRetry(a) ==
    IF a.kind = "cancelled" THEN FALSE
    ELSE a.kind = "neterr" \/ (a.kind = "http" /\ a.code \in retryErrorCodes)

FetchInit ==
    /\ fetch = [pc |-> "call", hist |-> <<>>]
    /\ look = IdleCall /\ ctxDone = FALSE
    /\ ents = {} /\ nextId = 1 /\ lastOp = IdleOp
    /\ upCfg = IdleCfg /\ pc = "idle" /\ i = 0 /\ j = 0 /\ inPos = 0
    /\ tickets = 0 /\ wgCount = 0 /\ hasFailures = FALSE /\ parts = <<>>
    /\ workers = <<>> /\ obsParts = <<>> /\ obsObject = <<>>
    /\ outOfOrder = FALSE /\ rx = IdleRx /\ rxParts = <<>>

\* one attempt of the function passed to pacer.Call
FetchAttempt ==
    /\ fetch.pc = "call"
    /\ \E a \in Attempts :
         fetch' = [pc |-> IF shouldRetry(a) /\ Len(fetch.hist) + 1 < MaxAttempts
                          THEN "call" ELSE "done",
                   hist |-> Append(fetch.hist, a)]
    /\ UNCHANGED <<upVars, rxVars, fsVars, look, ctxDone>>

FetchNext == FetchAttempt

SpecFetch == FetchInit /\ [][FetchNext]_vars

\* the status codes and errors that are to be retried
ToBeRetried(a) ==
    \/ a.kind = "neterr"
    \/ a.kind = "http" /\ a.code \in {429, 500, 502, 503, 504, 509}

\* C14: an attempt is followed by another one if and only if it ended with
\* one of the status codes 429, 500, 502, 503, 504, 509 or with a retryable
\* transport error (and the pacer has attempts left); after any other
\* response the call returns.
C14_RetriedIffListed ==
    /\ \A k \in 1..(Len(fetch.hist) - 1) : ToBeRetried(fetch.hist[k])
    /\ (fetch.pc = "done" /\ Len(fetch.hist) < MaxAttempts) =>
           ~ToBeRetried(fetch.hist[Len(fetch.hist)])


(***************************************************************************)
(* The PUT of the single-request upload under the pacer                    *)
(*                                                                         *)
(* The body of the request is one reader over the buffered prefix followed *)
(* by the rest of the input; every attempt of the pacer is given the same  *)
(* reader.                                                                 *)
(***************************************************************************)

\* bounds: the size of the input, and the length of the buffered prefix,
\* which stands for the 10 MiB of the code
MaxPutSize == 3
PrefixLen == 2

\* io.ReadAll(io.LimitReader(in, 10_485_760))
First10m(content) == SubSeq(content, 1, Min(Len(content), PrefixLen))

\* what is left in the input after the prefix was read
RestOfInput(content) ==
    SubSeq(content, Min(Len(content), PrefixLen) + 1, Len(content))

\* io.MultiReader(bytes.NewReader(first10mBytes), in): read n bytes at pos
MultiRead(first10mBytes, in, pos, n) == SubSeq(first10mBytes \o in, pos + 1, pos + n)

PutBodyInit ==
    /\ \E size \in 1..MaxPutSize :
         fetch = [pc |-> "put", content |-> Stream(size),
                  first10mBytes |-> First10m(Stream(size)),
                  in |-> RestOfInput(Stream(size)),
                  pos |-> 0, hist |-> <<>>, stored |-> <<>>, err |-> FALSE]
    /\ look = IdleCall /\ ctxDone = FALSE
    /\ ents = {} /\ nextId = 1 /\ lastOp = IdleOp
    /\ upCfg = IdleCfg /\ pc = "idle" /\ i = 0 /\ j = 0 /\ inPos = 0
    /\ tickets = 0 /\ wgCount = 0 /\ hasFailures = FALSE /\ parts = <<>>
    /\ workers = <<>> /\ obsParts = <<>> /\ obsObject = <<>>
    /\ outOfOrder = FALSE /\ rx = IdleRx /\ rxParts = <<>>

\* one attempt of the PUT: the client reads n bytes of the body and sends
\* them; a response of 200 comes after the body was read to its end, and the
\* signed URL then holds what the request carried
PutAttempt ==
    /\ fetch.pc = "put"
    /\ \E a \in Attempts, n \in 0..MaxPutSize :
         /\ n <= Len(fetch.content) - fetch.pos
         /\ (a.kind = "http" /\ a.code = 200) => n = Len(fetch.content) - fetch.pos
         /\ fetch' = [fetch EXCEPT
               !.pc = IF shouldRetry(a) /\ Len(fetch.hist) + 1 < MaxAttempts
                      THEN "put" ELSE "done",
               !.pos = fetch.pos + n,
               !.hist = Append(@, [from |-> fetch.pos, outcome |-> a,
                                   sent |-> MultiRead(fetch.first10mBytes,
                                                      fetch.in, fetch.pos, n)]),
               !.stored = IF a.kind = "http" /\ a.code = 200
                          THEN MultiRead(fetch.first10mBytes, fetch.in,
                                         fetch.pos, n)
                          ELSE @,
               !.err = ~(a.kind = "http" /\ a.code = 200)]
    /\ UNCHANGED <<upVars, rxVars, fsVars, look, ctxDone>>

PutBodyNext == PutAttempt

SpecPutBody == PutBodyInit /\ [][PutBodyNext]_vars

\* C27: every attempt of the PUT sends the content from its first byte, and
\* a PUT that succeeded has stored exactly the bytes of the input.
C27_EveryAttemptSendsAll ==
    fetch.pc \in {"put", "done"} =>
        /\ \A k \in DOMAIN fetch.hist : fetch.hist[k].from = 0
        /\ (fetch.pc = "done" /\ ~fetch.err) => fetch.stored = fetch.content



(***************************************************************************)
(* The retry wrappers and the context                                      *)
(*                                                                         *)
(* Each wrapper hands a function to pacer.Call; the pacer invokes it again *)
(* while it answers retry and attempts remain.  The context can be         *)
(* cancelled before any attempt.                                           *)
(***************************************************************************)

\* the functions handed to the pacer: the request itself, the two lookups,
\* the confirmation after a move and the one after a removal
Wrappers == {"_FetchWithRetries", "getIdByDirWithRetries", "getObjectWithRetries",
             "_MoveDir", "_MoveFile", "Remove"}

\* what the wrapped lookup returns: the entity, not-found or another error;
\* with a cancelled context its request fails with the context's error
LookupOutcomes == {"nil", "ErrorNotFound", "error"}

CtxError == [kind |-> "cancelled", code |-> 0]

\* what an attempt of the wrapper can end with
WrappedOutcomes(wrapper, done) ==
    IF wrapper = "_FetchWithRetries" THEN Attempts \ {CtxError}
    ELSE IF done THEN {"context canceled"} ELSE LookupOutcomes

\* the first value of the function handed to pacer.Call
WrapperRetries(wrapper, done, outcome) ==
    IF wrapper = "_FetchWithRetries"
    THEN shouldRetry(IF done THEN CtxError ELSE outcome)
    ELSE IF wrapper = "Remove" THEN outcome # "ErrorNotFound"
    ELSE outcome # "nil"

RetryInit ==
    /\ look \in [pc : {"call"}, wrapper : Wrappers, hist : {<<>>}]
    /\ ctxDone \in BOOLEAN
    /\ fetch = IdleCall
    /\ ents = {} /\ nextId = 1 /\ lastOp = IdleOp
    /\ upCfg = IdleCfg /\ pc = "idle" /\ i = 0 /\ j = 0 /\ inPos = 0
    /\ tickets = 0 /\ wgCount = 0 /\ hasFailures = FALSE /\ parts = <<>>
    /\ workers = <<>> /\ obsParts = <<>> /\ obsObject = <<>>
    /\ outOfOrder = FALSE /\ rx = IdleRx /\ rxParts = <<>>

\* one attempt of the function passed to pacer.Call
RetryAttempt ==
    /\ look.pc = "call"
    /\ \E outcome \in WrappedOutcomes(look.wrapper, ctxDone) :
         look' = [look EXCEPT
             !.pc = IF WrapperRetries(look.wrapper, ctxDone, outcome)
                       /\ Len(look.hist) + 1 < MaxAttempts
                    THEN "call" ELSE "done",
             !.hist = Append(@, [outcome |-> outcome, cancelled |-> ctxDone])]
    /\ UNCHANGED <<upVars, rxVars, fsVars, fetch, ctxDone>>

\* the caller cancels the context
RetryCancel ==
    /\ look.pc = "call"
    /\ ~ctxDone
    /\ ctxDone' = TRUE
    /\ UNCHANGED <<upVars, rxVars, fsVars, fetch, look>>

RetryNext == RetryAttempt \/ RetryCancel

SpecRetry == RetryInit /\ [][RetryNext]_vars

\* C31: an attempt that ends with the context cancelled is the last one of
\* its retry loop, for the request wrapper (whatever the response or the
\* transport error) and for the lookup and confirmation wrappers alike.
C31_NoRetryAfterCancel ==
    look.pc \in {"call", "done"} =>
        \A k \in 1..(Len(look.hist) - 1) : ~look.hist[k].cancelled



(***************************************************************************)
(* The page loops of getObject, getIdByDir and parse                       *)
(*                                                                         *)
(* The remote answers each file_search as it likes: with an error, with a  *)
(* status, with a page of any length.  One action is one turn of the loop. *)
(***************************************************************************)

\* bound: stands for the page number 100000 after which the loops give up
PageCap == 3

PageLoops == {"getObject", "getIdByDir", "parse"}

\* what a file_search is answered with: a failed request, a status, the
\* number of entities of the page, and whether one of them is the entry
\* looked for
PageAnswers ==
    {a \in [err : BOOLEAN, status : {1, 500}, n : 0..PerPage, hit : BOOLEAN] :
        a.hit => a.n > 0}

Turn(pc_, err) == [pc |-> pc_, err |-> err]

\* a turn that goes on after a page that is not full
NextPageWhateverLength(loop, pageNumber, a) ==
    IF a.err THEN Turn("done", "neterr")
    ELSE IF pageNumber > PageCap THEN Turn("done", "too many results")
    ELSE Turn("page", "nil")

\* linkbox.go 523-552, 249-282, 419-454: what the loop does with the answer
\* to the request of page pageNumber
NextPage(loop, pageNumber, a) ==
    IF a.err THEN Turn("done", "neterr")
    ELSE IF loop # "getIdByDir" /\ a.status # 1 THEN Turn("done", "other")
    ELSE IF loop = "getIdByDir" /\ a.n = 0 THEN Turn("done", "ErrorDirNotFound")
    ELSE IF loop # "parse" /\ a.hit THEN Turn("done", "nil")
    ELSE IF pageNumber > PageCap THEN Turn("done", "too many results")
    ELSE IF a.n = PerPage THEN Turn("page", "nil")
    ELSE Turn("done", CASE loop = "getObject" -> "ErrorObjectNotFound"
                        [] loop = "getIdByDir" -> "ErrorDirNotFound"
                        [] OTHER -> "nil")

PagesInit ==
    /\ look \in [pc : {"page"}, loop : PageLoops, pageNumber : {0},
                 hist : {<<>>}, err : {"nil"}]
    /\ fetch = IdleCall /\ ctxDone = FALSE
    /\ ents = {} /\ nextId = 1 /\ lastOp = IdleOp
    /\ upCfg = IdleCfg /\ pc = "idle" /\ i = 0 /\ j = 0 /\ inPos = 0
    /\ tickets = 0 /\ wgCount = 0 /\ hasFailures = FALSE /\ parts = <<>>
    /\ workers = <<>> /\ obsParts = <<>> /\ obsObject = <<>>
    /\ outOfOrder = FALSE /\ rx = IdleRx /\ rxParts = <<>>

\* one turn of the loop: pageNumber++, the request, the answer
PageRequest ==
    /\ look.pc = "page"
    /\ \E a \in PageAnswers :
         LET Turned(t) ==
                 look' = [look EXCEPT !.pc = t.pc, !.err = t.err,
                                      !.pageNumber = @ + 1,
                                      !.hist = Append(@, a)]
         IN  Turned(NextPage(look.loop, look.pageNumber + 1, a))
    /\ UNCHANGED <<upVars, rxVars, fsVars, fetch, ctxDone>>

SpecPages == PagesInit /\ [][PageRequest]_vars

\* a page that lets the loop go on: answered, full, without the entry
FullPage(a) == ~a.err /\ a.status = 1 /\ a.n = PerPage /\ ~a.hit

\* C35: a page loop sends the next file_search only after a full page, so it
\* stops at the first page with fewer entries than the page size; it never
\* sends more than cap + 1 requests, and when every page up to there was
\* full it ends with an error.
C35_PageLoopsEnd ==
    look.pc \in {"page", "done"} =>
        /\ Len(look.hist) <= PageCap + 1
        /\ \A k \in 1..(Len(look.hist) - 1) : look.hist[k].n = PerPage
        /\ (look.pc = "page" /\ look.hist # <<>>) =>
               look.hist[Len(look.hist)].n = PerPage
        /\ (Len(look.hist) = PageCap + 1 /\ FullPage(look.hist[PageCap + 1])) =>
               look.pc = "done" /\ look.err = "too many results"

\* the remote answered full pages throughout and the loop gave up
C35_Witness ==
    /\ look.pc = "done" /\ look.err = "too many results"
    /\ Len(look.hist) = PageCap + 1
    /\ \A k \in DOMAIN look.hist : FullPage(look.hist[k])

\* a loop that ended at a short page after a full one
C35_WitnessShort ==
    /\ look.pc = "done" /\ look.err \in {"nil", "ErrorObjectNotFound", "ErrorDirNotFound"}
    /\ Len(look.hist) = 2
    /\ look.hist[2].n < PerPage /\ ~look.hist[2].hit /\ look.hist[2].n > 0



(***************************************************************************)
(* The polling reconciler of the directory-cache version                   *)
(* (src/unnamed/part_002, _MultipartUpload 1337-1357, Update 1474-1494)    *)
(***************************************************************************)

maxTries == 10

\* the first sleep, in milliseconds
firstSleepTime == 100

Reconcilers == {"_MultipartUpload", "Update"}

\* what getObject returns: the entity, not-found, or another error (a failed
\* request, a status other than 1, too many pages)
PollOutcomes == {"nil", "ErrorObjectNotFound", "neterr", "other",
                 "too many results"}

\* a loop that sleeps and tries again after any error
AfterSearchRetryingAll(try, err) ==
    IF err = "nil" THEN "done" ELSE "sleep"

\* part_002 1342-1348: what follows a search
AfterSearch(try, err) ==
    IF err = "nil" THEN "done"
    ELSE IF err # "ErrorObjectNotFound" THEN "done"
    ELSE "sleep"

PollInit ==
    /\ look \in [pc : {"search"}, in : Reconcilers, try : {1},
                 sleepTime : {firstSleepTime}, hist : {<<>>}, slept : {<<>>},
                 err : {"nil"}]
    /\ fetch = IdleCall /\ ctxDone = FALSE
    /\ ents = {} /\ nextId = 1 /\ lastOp = IdleOp
    /\ upCfg = IdleCfg /\ pc = "idle" /\ i = 0 /\ j = 0 /\ inPos = 0
    /\ tickets = 0 /\ wgCount = 0 /\ hasFailures = FALSE /\ parts = <<>>
    /\ workers = <<>> /\ obsParts = <<>> /\ obsObject = <<>>
    /\ outOfOrder = FALSE /\ rx = IdleRx /\ rxParts = <<>>

\* part_002 1341-1348: one getObject of the loop
PollSearch ==
    /\ look.pc = "search"
    /\ \E err \in PollOutcomes :
         look' = [look EXCEPT !.pc = AfterSearch(look.try, err),
                              !.err = err,
                              !.hist = Append(@, err)]
    /\ UNCHANGED <<upVars, rxVars, fsVars, fetch, ctxDone>>

\* part_002 1349-1354: the sleep, the doubling, try++ and the loop's test
PollSleep ==
    /\ look.pc = "sleep"
    /\ look' = [look EXCEPT !.pc = IF look.try + 1 <= maxTries
                                   THEN "search" ELSE "done",
                            !.try = @ + 1,
                            !.sleepTime = @ * 2,
                            !.slept = Append(@, look.sleepTime)]
    /\ UNCHANGED <<upVars, rxVars, fsVars, fetch, ctxDone>>

PollNext == PollSearch \/ PollSleep

SpecPoll == PollInit /\ [][PollNext]_vars

\* C36: the reconciler searches at most 10 times; every search before the
\* last was a miss, and the k-th miss is followed by a sleep of 100 ms
\* doubled k - 1 times; it ends at the first search that finds the entity
\* (success), at the first error other than not-found (that error, with no
\* sleep after it), or after the 10th miss (not-found).
C36_PollsTenTimes ==
    look.pc \in {"search", "sleep", "done"} =>
        /\ Len(look.hist) <= maxTries
        /\ \A k \in 1..(Len(look.hist) - 1) : look.hist[k] = "ErrorObjectNotFound"
        /\ \A k \in DOMAIN look.slept :
               look.slept[k] = firstSleepTime * 2 ^ (k - 1)
                   /\ look.hist[k] = "ErrorObjectNotFound"
        /\ look.pc = "search" => Len(look.slept) = Len(look.hist)
        /\ look.pc = "sleep" =>
               /\ look.hist[Len(look.hist)] = "ErrorObjectNotFound"
               /\ Len(look.slept) = Len(look.hist) - 1
        /\ look.pc = "done" =>
               /\ look.err = look.hist[Len(look.hist)]
               /\ look.err = "ErrorObjectNotFound" <=> Len(look.slept) = maxTries
               /\ look.err # "ErrorObjectNotFound" =>
                      Len(look.slept) = Len(look.hist) - 1

\* the reconciler gives up after ten misses
C36_Witness ==
    /\ look.pc = "done" /\ look.err = "ErrorObjectNotFound"
    /\ Len(look.hist) = maxTries
    /\ look.slept[maxTries] = 51200

\* the entity shows at the third search
C36_WitnessFound ==
    /\ look.pc = "done" /\ look.err = "nil"
    /\ Len(look.hist) = 3 /\ look.slept = <<100, 200>>

====
